---------------------------- MODULE Spec2Model ----------------------------
(***************************************************************************)
(* A model of the pure-Python ALAC decoder, audiotools/py_decoders/alac.py *)
(* (class ALACDecoder).  The decoder pulls bits from a BitstreamReader and *)
(* turns one frameset into one interleaved PCM block per read() call.      *)
(*                                                                         *)
(* The bit source is a finite sequence of bits together with a cursor; a   *)
(* reader operation that needs bits past the end raises IOError.  Every    *)
(* decoder function is an operator that takes the bits and the cursor and  *)
(* returns a record [err, v, pos]: err is "" on success or the name of the *)
(* Python exception raised, v the returned value, pos the cursor after the *)
(* call.                                                                   *)
(***************************************************************************)
EXTENDS Integers, Sequences, FiniteSets, TLC

VARIABLES
    params,            \* the stream parameters of ALACDecoder.__init__
    stream,            \* the bits of the mdat payload behind self.reader
    pos,               \* the bit cursor of self.reader (bits consumed)
    total_pcm_frames,  \* self.total_pcm_frames
    result,            \* what the last read() call did
    declared,          \* total_pcm_frames as first set from the mdhd atom
    delivered,         \* PCM frames of all blocks returned so far
    truncated,         \* the payload is a well-formed payload cut short
    rr,                \* the local variables of one read_residuals call
    sf,                \* the local variables of one decode_subframe call
    dc,                \* one decorrelate_channels call: arguments, result
    ctor,              \* one ALACDecoder.__init__ call: the file, the outcome
    ad,                \* the locals of one coefficient adaptation loop
    fr                 \* one read_frame call: the argument, the locals

vars == <<params, stream, pos, total_pcm_frames, result, declared, delivered,
          truncated, rr, sf, dc, ctor, ad, fr>>

-----------------------------------------------------------------------------
(* Bounds of the model *)

\* framesets in one generated payload
MaxFramesets == 2

\* largest declared number of PCM frames
MaxTotal == 4

\* residuals requested from one read_residuals call
MaxSampleCount == 3

\* residuals handed to one decode_subframe call
MaxResiduals == 4

\* largest sample magnitude handed to decorrelate_channels
MaxSample == 1

\* free bits at the end of the input of one read_residuals call
MaxTailBits == 7

\* largest magnitude of a sample of the window
MaxWindow == 2

\* largest magnitude of the residual that starts the adaptation
MaxError == 3

-----------------------------------------------------------------------------
(* Results of a call *)

Ok(v, p) == [err |-> "", v |-> v, pos |-> p]

Raise(e, p) == [err |-> e, v |-> 0, pos |-> p]

\* the statements after a call run on its result unless the call raised
Bind(r, F(_)) == IF r.err # "" THEN r ELSE F(r)

Min(a, b) == IF a <= b THEN a ELSE b

Pow2(n) == 2 ^ n

-----------------------------------------------------------------------------
(* audiotools.bitstream.BitstreamReader, as far as the decoder uses it *)

RECURSIVE BitsValue(_, _, _)
\* the unsigned big-endian value of bits[p+1 .. p+n]
BitsValue(bits, p, n) ==
    IF n = 0 THEN 0 ELSE 2 * BitsValue(bits, p, n - 1) + bits[p + n]

\* reader.read(n): n bits as an unsigned integer, IOError past the end
reader_read(bits, p, n) ==
    IF p + n > Len(bits) THEN Raise("IOError", Len(bits))
    ELSE Ok(BitsValue(bits, p, n), p + n)

\* reader.read_signed(n): n bits as a two's-complement integer
reader_read_signed(bits, p, n) ==
    IF p + n > Len(bits) THEN Raise("IOError", Len(bits))
    ELSE LET u == BitsValue(bits, p, n)
         IN  Ok(IF u >= Pow2(n - 1) THEN u - Pow2(n) ELSE u, p + n)

\* reader.skip(n): n bits read and dropped
reader_skip(bits, p, n) ==
    IF p + n > Len(bits) THEN Raise("IOError", Len(bits)) ELSE Ok(0, p + n)

\* reader.unread(n): the cursor moves back over the n bits pushed back
reader_unread(bits, p, n) == Ok(0, p - n)

\* reader.byte_align(): the rest of a partly read byte is dropped
reader_byte_align(bits, p) == Ok(0, Min(Len(bits), p + ((8 - (p % 8)) % 8)))

RECURSIVE unary_from(_, _, _, _, _)
unary_from(bits, p, stop_bit, maximum_bits, count) ==
    IF count = maximum_bits THEN Ok(-1, p)
    ELSE IF p + 1 > Len(bits) THEN Raise("IOError", Len(bits))
    ELSE IF bits[p + 1] = stop_bit THEN Ok(count, p + 1)
    ELSE unary_from(bits, p + 1, stop_bit, maximum_bits, count + 1)

\* reader.limited_unary(stop_bit, maximum_bits): the number of bits before
\* the stop bit, or None (here -1) when maximum_bits bits hold no stop bit
reader_limited_unary(bits, p, stop_bit, maximum_bits) ==
    unary_from(bits, p, stop_bit, maximum_bits, 0)

RECURSIVE read_list(_, _, _, _, _)
\* [reader.read(width) for i in xrange(n)], and the read_signed form
read_list(bits, p, n, width, signed) ==
    IF n <= 0 THEN Ok(<<>>, p)
    ELSE Bind(IF signed THEN reader_read_signed(bits, p, width)
              ELSE reader_read(bits, p, width), LAMBDA r :
         Bind(read_list(bits, r.pos, n - 1, width, signed), LAMBDA rest :
           Ok(<<r.v>> \o rest.v, rest.pos)))

-----------------------------------------------------------------------------
(* Module-level helpers of alac.py *)

RECURSIVE log2(_)
log2(i) == IF i = 0 THEN -1 ELSE 1 + log2(i \div 2)

sign_only(value) == IF value = 0 THEN 0 ELSE IF value > 0 THEN 1 ELSE -1

-----------------------------------------------------------------------------
(* ALACDecoder.read_residual *)

\* read_residual taking the suffix itself for the low part of the value
read_residual_unshifted(bits, p, k, sample_size) ==
    LET msb == reader_limited_unary(bits, p, 0, 9)
    IN  IF msb.err # "" THEN msb
        ELSE IF msb.v = -1 THEN reader_read(bits, msb.pos, sample_size)
        ELSE IF k = 0 THEN msb
        ELSE LET lsb == reader_read(bits, msb.pos, k)
             IN  IF lsb.err # "" THEN lsb
                 ELSE IF lsb.v > 1
                      THEN Ok(msb.v * (Pow2(k) - 1) + lsb.v, lsb.pos)
                 ELSE IF lsb.v = 1
                      THEN Ok(msb.v * (Pow2(k) - 1),
                              reader_unread(bits, lsb.pos, 1).pos)
                 ELSE Ok(msb.v * (Pow2(k) - 1),
                         reader_unread(bits, lsb.pos, 0).pos)

read_residual(bits, p, k, sample_size) ==
    LET msb == reader_limited_unary(bits, p, 0, 9)
    IN  IF msb.err # "" THEN msb
        ELSE IF msb.v = -1 THEN reader_read(bits, msb.pos, sample_size)
        ELSE IF k = 0 THEN msb
        ELSE LET lsb == reader_read(bits, msb.pos, k)
             IN  IF lsb.err # "" THEN lsb
                 ELSE IF lsb.v > 1
                      THEN Ok(msb.v * (Pow2(k) - 1) + (lsb.v - 1), lsb.pos)
                 ELSE IF lsb.v = 1
                      THEN Ok(msb.v * (Pow2(k) - 1),
                              reader_unread(bits, lsb.pos, 1).pos)
                 ELSE Ok(msb.v * (Pow2(k) - 1),
                         reader_unread(bits, lsb.pos, 0).pos)

-----------------------------------------------------------------------------
(* ALACDecoder.read_residuals.  The locals of a call are a record          *)
(* [err, pos, history, sign_modifier, i, residuals, phase]; phase is the   *)
(* position in the loop body: "decode" before line 221, "zeroes" before    *)
(* line 243, "done" once the while loop has ended or an exception left it. *)

Zeroes(n) == [j \in 1..n |-> 0]

residuals_start(P, p, sample_count) ==
    [err |-> "", pos |-> p, history |-> P.initial_history,
     sign_modifier |-> 0, i |-> 0, residuals |-> <<>>,
     phase |-> IF 0 < sample_count THEN "decode" ELSE "done"]

\* residuals_decode with the two terms of the history update exchanged
residuals_decode_exchanged(bits, P, sample_size, sample_count, st) ==
    LET k == Min(log2((st.history \div Pow2(9)) + 3), P.maximum_k)
        r == read_residual(bits, st.pos, k, sample_size)
        unsigned == r.v + st.sign_modifier
        signed == IF unsigned % 2 = 1 THEN -((unsigned + 1) \div 2)
                  ELSE unsigned \div 2
        history == IF unsigned <= 65535
                   THEN st.history +
                        (((st.history * P.history_multiplier) \div Pow2(9)) -
                         (unsigned * P.history_multiplier))
                   ELSE 65535
    IN  IF r.err # ""
        THEN [st EXCEPT !.err = r.err, !.pos = r.pos, !.phase = "done"]
        ELSE [st EXCEPT !.pos = r.pos, !.sign_modifier = 0,
                        !.residuals = Append(@, signed),
                        !.history = history, !.phase = "zeroes"]

\* lines 221..239: one residual is read and the history updated
residuals_decode(bits, P, sample_size, sample_count, st) ==
    LET k == Min(log2((st.history \div Pow2(9)) + 3), P.maximum_k)
        r == read_residual(bits, st.pos, k, sample_size)
        unsigned == r.v + st.sign_modifier
        signed == IF unsigned % 2 = 1 THEN -((unsigned + 1) \div 2)
                  ELSE unsigned \div 2
        history == IF unsigned <= 65535
                   THEN st.history +
                        ((unsigned * P.history_multiplier) -
                         ((st.history * P.history_multiplier) \div Pow2(9)))
                   ELSE 65535
    IN  IF r.err # ""
        THEN [st EXCEPT !.err = r.err, !.pos = r.pos, !.phase = "done"]
        ELSE [st EXCEPT !.pos = r.pos, !.sign_modifier = 0,
                        !.residuals = Append(@, signed),
                        !.history = history, !.phase = "zeroes"]

\* residuals_zeroes without the test (i + 1) < sample_count of line 243
residuals_zeroes_unguarded(bits, P, sample_size, sample_count, st) ==
    LET after(s) == [s EXCEPT !.i = @ + 1,
                       !.phase = IF s.i + 1 < sample_count
                                 THEN "decode" ELSE "done"]
    IN  IF st.history < 128
        THEN LET zeroes_k == Min(7 - log2(st.history) +
                                 ((st.history + 16) \div 64), P.maximum_k)
                 z == read_residual(bits, st.pos, zeroes_k, 16)
             IN  IF z.err # ""
                 THEN [st EXCEPT !.err = z.err, !.pos = z.pos,
                                 !.phase = "done"]
                 ELSE after([st EXCEPT
                        !.pos = z.pos,
                        !.residuals = IF z.v > 0 THEN @ \o Zeroes(z.v) ELSE @,
                        !.i = IF z.v > 0 THEN @ + z.v ELSE @,
                        !.history = 0,
                        !.sign_modifier = IF z.v <= 65535 THEN 1 ELSE @])
        ELSE after(st)

\* residuals_zeroes without the assignment sign_modifier = 1 of line 256
residuals_zeroes_unsigned(bits, P, sample_size, sample_count, st) ==
    LET after(s) == [s EXCEPT !.i = @ + 1,
                       !.phase = IF s.i + 1 < sample_count
                                 THEN "decode" ELSE "done"]
    IN  IF (st.history < 128) /\ ((st.i + 1) < sample_count)
        THEN LET zeroes_k == Min(7 - log2(st.history) +
                                 ((st.history + 16) \div 64), P.maximum_k)
                 z == read_residual(bits, st.pos, zeroes_k, 16)
             IN  IF z.err # ""
                 THEN [st EXCEPT !.err = z.err, !.pos = z.pos,
                                 !.phase = "done"]
                 ELSE after([st EXCEPT
                        !.pos = z.pos,
                        !.residuals = IF z.v > 0 THEN @ \o Zeroes(z.v) ELSE @,
                        !.i = IF z.v > 0 THEN @ + z.v ELSE @,
                        !.history = 0])
        ELSE after(st)

\* lines 243..258: the optional block of zero residuals, then i += 1
residuals_zeroes(bits, P, sample_size, sample_count, st) ==
    LET after(s) == [s EXCEPT !.i = @ + 1,
                       !.phase = IF s.i + 1 < sample_count
                                 THEN "decode" ELSE "done"]
    IN  IF (st.history < 128) /\ ((st.i + 1) < sample_count)
        THEN LET zeroes_k == Min(7 - log2(st.history) +
                                 ((st.history + 16) \div 64), P.maximum_k)
                 z == read_residual(bits, st.pos, zeroes_k, 16)
             IN  IF z.err # ""
                 THEN [st EXCEPT !.err = z.err, !.pos = z.pos,
                                 !.phase = "done"]
                 ELSE after([st EXCEPT
                        !.pos = z.pos,
                        !.residuals = IF z.v > 0 THEN @ \o Zeroes(z.v) ELSE @,
                        !.i = IF z.v > 0 THEN @ + z.v ELSE @,
                        !.history = 0,
                        !.sign_modifier = IF z.v <= 65535 THEN 1 ELSE @])
        ELSE after(st)

RECURSIVE residuals_loop(_, _, _, _, _)
residuals_loop(bits, P, sample_size, sample_count, st) ==
    IF st.phase = "done" THEN st
    ELSE IF st.phase = "decode"
    THEN residuals_loop(bits, P, sample_size, sample_count,
             residuals_decode(bits, P, sample_size, sample_count, st))
    ELSE residuals_loop(bits, P, sample_size, sample_count,
             residuals_zeroes(bits, P, sample_size, sample_count, st))

\* line 260, or the exception that left the loop
residuals_return(st) ==
    IF st.err # "" THEN Raise(st.err, st.pos) ELSE Ok(st.residuals, st.pos)

read_residuals(bits, p, P, sample_size, sample_count) ==
    residuals_return(residuals_loop(bits, P, sample_size, sample_count,
                                    residuals_start(P, p, sample_count)))

-----------------------------------------------------------------------------
(* ALACDecoder.decode_subframe.  The locals of a call are a record         *)
(* [err, qlp_shift_needed, qlp_coefficients, residuals, samples, phase];   *)
(* residuals holds the residuals not yet consumed.  phase is "warmup"      *)
(* before line 280, "predict" inside the for loop of line 284 and "done"   *)
(* at the return or when an exception left the call.                       *)

subframe_start(qlp_shift_needed, qlp_coefficients, residuals) ==
    [err |-> "", qlp_shift_needed |-> qlp_shift_needed,
     qlp_coefficients |-> qlp_coefficients, residuals |-> residuals,
     samples |-> <<>>, phase |-> "warmup"]

RECURSIVE running_sum(_, _)
\* the cumulative sums of seq, each added to the start value acc
running_sum(seq, acc) ==
    IF seq = <<>> THEN <<>>
    ELSE <<acc + Head(seq)>> \o running_sum(Tail(seq), acc + Head(seq))

\* lines 280..282: the first len(qlp_coefficients) + 1 residuals are summed;
\* residuals.pop(0) on an empty list raises IndexError
subframe_warmup(st) ==
    LET order == Len(st.qlp_coefficients)
    IN  IF Len(st.residuals) < order + 1
        THEN [st EXCEPT !.err = "IndexError", !.phase = "done"]
        ELSE [st EXCEPT
                !.samples = running_sum(SubSeq(st.residuals, 1, order + 1), 0),
                !.residuals = SubSeq(@, order + 2, Len(@)),
                !.phase = IF Len(st.residuals) > order + 1
                          THEN "predict" ELSE "done"]

RECURSIVE lpc_sum_from(_, _, _, _)
\* sum([(s - base_sample) * c for (s, c) in
\*      zip(samples[-order:], reversed(qlp_coefficients))]), terms j..order-1
lpc_sum_from(samples, qlp_coefficients, base_sample, j) ==
    LET order == Len(qlp_coefficients)
        n == Len(samples)
    IN  IF j >= order THEN 0
        ELSE (samples[n - order + j + 1] - base_sample) *
               qlp_coefficients[order - j]
             + lpc_sum_from(samples, qlp_coefficients, base_sample, j + 1)

\* The locals of the adaptation loops of lines 296..325 are a record
\* [qlp_coefficients, residual, predictor_num, phase]; phase is "positive"
\* inside the loop of line 299, "negative" inside the loop of line 315 and
\* "done" past both.

\* lines 296..298 and 311..313: the branch taken and its first test
adapt_start(qlp_coefficients, residual) ==
    [qlp_coefficients |-> qlp_coefficients, residual |-> residual,
     predictor_num |-> Len(qlp_coefficients) - 1,
     phase |-> IF residual > 0 /\ Len(qlp_coefficients) - 1 >= 0
               THEN "positive"
               ELSE IF residual < 0 /\ Len(qlp_coefficients) - 1 >= 0
               THEN "negative" ELSE "done"]

\* adapt_positive without the factor len(qlp_coefficients) - predictor_num
adapt_positive_unweighted(buf, qlp_shift_needed, st) ==
    LET order == Len(st.qlp_coefficients)
        val == buf[1] - buf[order - st.predictor_num + 1]
        sign == sign_only(val)
        residual == st.residual - ((val * sign) \div Pow2(qlp_shift_needed))
    IN  [qlp_coefficients |-> [st.qlp_coefficients EXCEPT
                                 ![st.predictor_num + 1] = @ - sign],
         residual |-> residual,
         predictor_num |-> st.predictor_num - 1,
         phase |-> IF (st.predictor_num - 1 >= 0) /\ residual > 0
                   THEN "positive" ELSE "done"]

\* lines 300..309 and the test of line 299 that follows them
adapt_positive(buf, qlp_shift_needed, st) ==
    LET order == Len(st.qlp_coefficients)
        val == buf[1] - buf[order - st.predictor_num + 1]
        sign == sign_only(val)
        residual == st.residual -
                      (((val * sign) \div Pow2(qlp_shift_needed)) *
                       (order - st.predictor_num))
    IN  [qlp_coefficients |-> [st.qlp_coefficients EXCEPT
                                 ![st.predictor_num + 1] = @ - sign],
         residual |-> residual,
         predictor_num |-> st.predictor_num - 1,
         phase |-> IF (st.predictor_num - 1 >= 0) /\ residual > 0
                   THEN "positive" ELSE "done"]

\* adapt_negative moving the coefficient the way the positive branch does
adapt_negative_unturned(buf, qlp_shift_needed, st) ==
    LET order == Len(st.qlp_coefficients)
        val == buf[1] - buf[order - st.predictor_num + 1]
        sign == -sign_only(val)
        residual == st.residual -
                      (((val * sign) \div Pow2(qlp_shift_needed)) *
                       (order - st.predictor_num))
    IN  [qlp_coefficients |-> [st.qlp_coefficients EXCEPT
                                 ![st.predictor_num + 1] = @ + sign],
         residual |-> residual,
         predictor_num |-> st.predictor_num - 1,
         phase |-> IF (st.predictor_num - 1 >= 0) /\ residual < 0
                   THEN "negative" ELSE "done"]

\* lines 316..325 and the test of line 315 that follows them
adapt_negative(buf, qlp_shift_needed, st) ==
    LET order == Len(st.qlp_coefficients)
        val == buf[1] - buf[order - st.predictor_num + 1]
        sign == -sign_only(val)
        residual == st.residual -
                      (((val * sign) \div Pow2(qlp_shift_needed)) *
                       (order - st.predictor_num))
    IN  [qlp_coefficients |-> [st.qlp_coefficients EXCEPT
                                 ![st.predictor_num + 1] = @ - sign],
         residual |-> residual,
         predictor_num |-> st.predictor_num - 1,
         phase |-> IF (st.predictor_num - 1 >= 0) /\ residual < 0
                   THEN "negative" ELSE "done"]

\* adapt_negative as the mirror image of adapt_positive: the residual
\* left comes up by (|val| >> shift) * (order - idx)
adapt_negative_mirrored(buf, qlp_shift_needed, st) ==
    LET order == Len(st.qlp_coefficients)
        val == buf[1] - buf[order - st.predictor_num + 1]
        sign == sign_only(val)
        residual == st.residual +
                      (((val * sign) \div Pow2(qlp_shift_needed)) *
                       (order - st.predictor_num))
    IN  [qlp_coefficients |-> [st.qlp_coefficients EXCEPT
                                 ![st.predictor_num + 1] = @ + sign],
         residual |-> residual,
         predictor_num |-> st.predictor_num - 1,
         phase |-> IF (st.predictor_num - 1 >= 0) /\ residual < 0
                   THEN "negative" ELSE "done"]

RECURSIVE adapt_mirrored_loop(_, _, _)
adapt_mirrored_loop(buf, qlp_shift_needed, st) ==
    IF st.phase = "positive"
    THEN adapt_mirrored_loop(buf, qlp_shift_needed,
             adapt_positive(buf, qlp_shift_needed, st))
    ELSE IF st.phase = "negative"
    THEN adapt_mirrored_loop(buf, qlp_shift_needed,
             adapt_negative_mirrored(buf, qlp_shift_needed, st))
    ELSE st

RECURSIVE adapt_loop(_, _, _)
\* the while loop of the branch taken, run to its end
adapt_loop(buf, qlp_shift_needed, st) ==
    IF st.phase = "positive"
    THEN adapt_loop(buf, qlp_shift_needed,
             adapt_positive(buf, qlp_shift_needed, st))
    ELSE IF st.phase = "negative"
    THEN adapt_loop(buf, qlp_shift_needed,
             adapt_negative(buf, qlp_shift_needed, st))
    ELSE st

\* the table, the residual left and the number of coefficients visited
adapt_return(st, order) ==
    [qlp_coefficients |-> st.qlp_coefficients, residual |-> st.residual,
     visited |-> order - 1 - st.predictor_num]

\* adapt with the negative branch the mirror image of the positive one
adapt_symmetric(buf, qlp_shift_needed, qlp_coefficients, residual) ==
    adapt_return(adapt_mirrored_loop(buf, qlp_shift_needed,
                     adapt_start(qlp_coefficients, residual)),
                 Len(qlp_coefficients))

\* lines 296..325: the coefficients are adapted on the window buf =
\* samples[-order-2:-1] by the branch the sign of the residual selects; a
\* residual that changes its sign ends the loop of its branch
adapt(buf, qlp_shift_needed, qlp_coefficients, residual) ==
    adapt_return(adapt_loop(buf, qlp_shift_needed,
                     adapt_start(qlp_coefficients, residual)),
                 Len(qlp_coefficients))

\* lines 285..325: one pass of the loop body, for the next residual;
\* 1 << (qlp_shift_needed - 1) raises ValueError on a negative shift count
subframe_predict(st) ==
    LET order == Len(st.qlp_coefficients)
        n == Len(st.samples)
        residual == Head(st.residuals)
        base_sample == st.samples[n - order]
        lpc_sum == lpc_sum_from(st.samples, st.qlp_coefficients,
                                base_sample, 0)
        outval == (Pow2(st.qlp_shift_needed - 1) + lpc_sum)
                     \div Pow2(st.qlp_shift_needed)
        buf == SubSeq(st.samples, n - order, n)
        adapted == IF residual > 0 \/ residual < 0
                   THEN adapt(buf, st.qlp_shift_needed, st.qlp_coefficients,
                              residual).qlp_coefficients
                   ELSE st.qlp_coefficients
    IN  IF st.qlp_shift_needed - 1 < 0
        THEN [st EXCEPT !.err = "ValueError", !.phase = "done"]
        ELSE [st EXCEPT
                !.samples = Append(@, outval + residual + base_sample),
                !.qlp_coefficients = adapted,
                !.residuals = Tail(@),
                !.phase = IF Len(st.residuals) > 1 THEN "predict" ELSE "done"]

RECURSIVE subframe_loop(_)
subframe_loop(st) ==
    IF st.phase = "done" THEN st
    ELSE IF st.phase = "warmup" THEN subframe_loop(subframe_warmup(st))
    ELSE subframe_loop(subframe_predict(st))

decode_subframe(qlp_shift_needed, qlp_coefficients, residuals) ==
    subframe_loop(subframe_start(qlp_shift_needed, qlp_coefficients,
                                 residuals))

-----------------------------------------------------------------------------
(* ALACDecoder.decorrelate_channels *)

\* a / b rounded toward zero, as C divides
TruncDiv(a, b) == IF a >= 0 THEN a \div b ELSE -((-a) \div b)

\* decorrelate_channels with the division rounding toward zero
decorrelate_channels_truncating(channel_data, interlacing_shift, interlacing_leftweight) ==
    IF Len(channel_data) # 2 THEN channel_data
    ELSE IF interlacing_leftweight = 0 THEN channel_data
    ELSE LET ch1 == channel_data[1]
             ch2 == channel_data[2]
             n == Min(Len(ch1), Len(ch2))
             right == [j \in 1..n |->
                         ch1[j] - TruncDiv(ch2[j] * interlacing_leftweight,
                                           Pow2(interlacing_shift))]
             left == [j \in 1..n |-> ch2[j] + right[j]]
         IN  <<left, right>>

\* decorrelate_channels without the test of line 333
decorrelate_channels_always(channel_data, interlacing_shift, interlacing_leftweight) ==
    IF Len(channel_data) # 2 THEN channel_data
    ELSE LET ch1 == channel_data[1]
             ch2 == channel_data[2]
             n == Min(Len(ch1), Len(ch2))
             right == [j \in 1..n |->
                         ch1[j] - ((ch2[j] * interlacing_leftweight)
                                      \div Pow2(interlacing_shift))]
             left == [j \in 1..n |-> ch2[j] + right[j]]
         IN  <<left, right>>

decorrelate_channels(channel_data, interlacing_shift, interlacing_leftweight) ==
    IF Len(channel_data) # 2 THEN channel_data
    ELSE IF interlacing_leftweight = 0 THEN channel_data
    ELSE LET ch1 == channel_data[1]
             ch2 == channel_data[2]
             n == Min(Len(ch1), Len(ch2))
             right == [j \in 1..n |->
                         ch1[j] - ((ch2[j] * interlacing_leftweight)
                                      \div Pow2(interlacing_shift))]
             left == [j \in 1..n |-> ch2[j] + right[j]]
         IN  <<left, right>>

-----------------------------------------------------------------------------
(* ALACDecoder.read_subframe_header *)

read_subframe_header(bits, p) ==
    Bind(reader_read(bits, p, 4), LAMBDA prediction_type :
    Bind(reader_read(bits, prediction_type.pos, 4), LAMBDA qlp_shift_needed :
    Bind(reader_read(bits, qlp_shift_needed.pos, 3), LAMBDA rice_modifier :
    Bind(reader_read(bits, rice_modifier.pos, 5), LAMBDA count :
    Bind(read_list(bits, count.pos, count.v, 16, TRUE),
         LAMBDA qlp_coefficients :
      Ok(<<qlp_shift_needed.v, qlp_coefficients.v>>,
         qlp_coefficients.pos))))))

-----------------------------------------------------------------------------
(* ALACDecoder.read_frame *)

\* the Python slice seq[i::step] of a list (i counted from 0)
Stride(seq, i, step) ==
    LET n == IF Len(seq) > i THEN (Len(seq) - i + step - 1) \div step ELSE 0
    IN  [t \in 1..n |-> seq[i + (t - 1) * step + 1]]

RECURSIVE read_subframe_headers(_, _, _)
\* [self.read_subframe_header() for i in xrange(n)]
read_subframe_headers(bits, p, n) ==
    IF n <= 0 THEN Ok(<<>>, p)
    ELSE Bind(read_subframe_header(bits, p), LAMBDA h :
         Bind(read_subframe_headers(bits, h.pos, n - 1), LAMBDA rest :
           Ok(<<h.v>> \o rest.v, rest.pos)))

RECURSIVE read_residual_blocks(_, _, _, _, _, _)
\* [self.read_residuals(sample_size, sample_count) for i in xrange(n)]
read_residual_blocks(bits, p, P, sample_size, sample_count, n) ==
    IF n <= 0 THEN Ok(<<>>, p)
    ELSE Bind(read_residuals(bits, p, P, sample_size, sample_count),
              LAMBDA b :
         Bind(read_residual_blocks(bits, b.pos, P, sample_size, sample_count,
                                   n - 1), LAMBDA rest :
           Ok(<<b.v>> \o rest.v, rest.pos)))

\* what a decode_subframe call returns or raises, the cursor being at p
subframe_return(st, p) ==
    IF st.err # "" THEN Raise(st.err, p) ELSE Ok(st.samples, p)

RECURSIVE decode_subframes(_, _, _, _)
\* [self.decode_subframe(header[0], header[1], residuals) for ... in zip]
\* from the j-th pair on; the first exception ends the comprehension
decode_subframes(subframe_headers, residual_blocks, j, p) ==
    IF j > Min(Len(subframe_headers), Len(residual_blocks)) THEN Ok(<<>>, p)
    ELSE Bind(subframe_return(
                  decode_subframe(subframe_headers[j][1],
                                  subframe_headers[j][2],
                                  residual_blocks[j]), p), LAMBDA d :
         Bind(decode_subframes(subframe_headers, residual_blocks, j + 1, p),
              LAMBDA rest :
           Ok(<<d.v>> \o rest.v, p)))

\* merge_lsbs taking channel c's LSBs from the c-th run of the flat list
\* in place of every channel_count-th element
merge_lsbs_planar(decorrelated_channels, uncompressed_lsbs, uncompressed_lsb_size, channel_count, p) ==
    IF uncompressed_lsb_size > 0
    THEN IF \E c \in 1..Len(decorrelated_channels) :
                Len(decorrelated_channels[c]) #
                    Len(Stride(uncompressed_lsbs, c - 1, channel_count))
         THEN Raise("AssertionError", p)
         ELSE Ok([c \in 1..Len(decorrelated_channels) |->
                    [f \in 1..Len(decorrelated_channels[c]) |->
                       decorrelated_channels[c][f] *
                           Pow2(uncompressed_lsb_size * 8) +
                       uncompressed_lsbs[
                           (c - 1) * Len(decorrelated_channels[c]) + f]]],
                 p)
    ELSE Ok(decorrelated_channels, p)

\* lines 191..201: the uncompressed LSBs go below each sample; the assert
\* of line 194 raises AssertionError on the first channel it fails for
merge_lsbs(decorrelated_channels, uncompressed_lsbs, uncompressed_lsb_size, channel_count, p) ==
    IF uncompressed_lsb_size > 0
    THEN IF \E c \in 1..Len(decorrelated_channels) :
                Len(decorrelated_channels[c]) #
                    Len(Stride(uncompressed_lsbs, c - 1, channel_count))
         THEN Raise("AssertionError", p)
         ELSE Ok([c \in 1..Len(decorrelated_channels) |->
                    [f \in 1..Len(decorrelated_channels[c]) |->
                       decorrelated_channels[c][f] *
                           Pow2(uncompressed_lsb_size * 8) +
                       Stride(uncompressed_lsbs, c - 1, channel_count)[f]]],
                 p)
    ELSE Ok(decorrelated_channels, p)

\* lines 148..201: the compressed frame, from the cursor p after the header
read_compressed(bits, p, P, channel_count, uncompressed_lsb_size, sample_count) ==
    Bind(reader_read(bits, p, 8), LAMBDA interlacing_shift :
    Bind(reader_read(bits, interlacing_shift.pos, 8),
         LAMBDA interlacing_leftweight :
    Bind(read_subframe_headers(bits, interlacing_leftweight.pos,
                               channel_count), LAMBDA subframe_headers :
    Bind(IF uncompressed_lsb_size > 0
         THEN read_list(bits, subframe_headers.pos,
                        sample_count * channel_count,
                        uncompressed_lsb_size * 8, FALSE)
         ELSE Ok(<<>>, subframe_headers.pos), LAMBDA uncompressed_lsbs :
    Bind(read_residual_blocks(bits, uncompressed_lsbs.pos, P,
             P.bits_per_sample - (uncompressed_lsb_size * 8) +
                 channel_count - 1,
             sample_count, channel_count), LAMBDA residual_blocks :
    Bind(decode_subframes(subframe_headers.v, residual_blocks.v, 1,
                          residual_blocks.pos), LAMBDA decoded_subframes :
      merge_lsbs(decorrelate_channels(decoded_subframes.v,
                                      interlacing_shift.v,
                                      interlacing_leftweight.v),
                 uncompressed_lsbs.v, uncompressed_lsb_size, channel_count,
                 residual_blocks.pos)))))))

\* lines 141..146: the uncompressed frame, from the cursor p after the header
read_uncompressed(bits, p, P, channel_count, sample_count) ==
    Bind(read_list(bits, p, sample_count * channel_count, P.bits_per_sample,
                   TRUE), LAMBDA samples :
      Ok([c \in 1..channel_count |->
            Stride(samples.v, c - 1, channel_count)], samples.pos))

\* read_frame(channel_count): a list of sample lists, one per channel
read_frame(bits, p, P, channel_count) ==
    Bind(reader_skip(bits, p, 16), LAMBDA skipped :
    Bind(reader_read(bits, skipped.pos, 1), LAMBDA has_sample_count :
    Bind(reader_read(bits, has_sample_count.pos, 2),
         LAMBDA uncompressed_lsb_size :
    Bind(reader_read(bits, uncompressed_lsb_size.pos, 1),
         LAMBDA uncompressed :
    Bind(IF has_sample_count.v # 0
         THEN reader_read(bits, uncompressed.pos, 32)
         ELSE Ok(P.samples_per_frame, uncompressed.pos),
         LAMBDA sample_count :
      IF uncompressed.v = 1
      THEN read_uncompressed(bits, sample_count.pos, P, channel_count,
                             sample_count.v)
      ELSE read_compressed(bits, sample_count.pos, P, channel_count,
                           uncompressed_lsb_size.v, sample_count.v))))))

-----------------------------------------------------------------------------
(* ALACDecoder.read *)

RECURSIVE read_frameset(_, _, _, _)
\* lines 103..108: frames are read until the channel-count field reads 7;
\* frameset_data collects their channels
read_frameset(bits, p, P, frameset_data) ==
    Bind(reader_read(bits, p, 3), LAMBDA frame_channels :
      IF frame_channels.v + 1 = 8
      THEN Ok(frameset_data, reader_byte_align(bits, frame_channels.pos).pos)
      ELSE Bind(read_frame(bits, frame_channels.pos, P, frame_channels.v + 1),
                LAMBDA frame :
             read_frameset(bits, frame.pos, P, frameset_data \o frame.v)))

RECURSIVE SumLen(_)
SumLen(lists) ==
    IF lists = <<>> THEN 0 ELSE Len(Head(lists)) + SumLen(Tail(lists))

RECURSIVE Concat(_)
Concat(lists) ==
    IF lists = <<>> THEN <<>> ELSE Head(lists) \o Concat(Tail(lists))

\* recombine laying the channels out one after the other
recombine_planar(frameset_data, p) == Ok(Concat(frameset_data), p)

\* lines 111..117: samples[i::total_channels] = channel, for each channel;
\* an extended slice takes only a list of its own length (ValueError)
recombine(frameset_data, p) ==
    LET total_channels == Len(frameset_data)
        total == SumLen(frameset_data)
        blank == [j \in 1..total |-> 0]
    IN  IF \E c \in 1..total_channels :
              total_channels # 1 /\
              Len(frameset_data[c]) #
                  Len(Stride(blank, c - 1, total_channels))
        THEN Raise("ValueError", p)
        ELSE Ok([j \in 1..total |->
                   frameset_data[((j - 1) % total_channels) + 1]
                                [((j - 1) \div total_channels) + 1]], p)

\* audiotools.pcm.from_list(samples, channels, bits_per_sample, True):
\* a FrameList of len(samples) / channels frames
from_list(samples, channels, bits_per_sample, p) ==
    IF channels < 1 \/ Len(samples) % channels # 0 THEN Raise("ValueError", p)
    ELSE Ok([samples |-> samples, channels |-> channels,
             bits_per_sample |-> bits_per_sample,
             frames |-> Len(samples) \div channels], p)

\* the empty FrameList of line 100
empty_framelist(P) == from_list(<<>>, P.channels, P.bits_per_sample, 0).v

\* line 100: the call returns at once
read_exhausted(p, P, remaining) ==
    [err |-> "", v |-> empty_framelist(P), pos |-> p,
     total_pcm_frames |-> remaining]

\* lines 103..120: the FrameList of one frameset
read_framelist(bits, p, P) ==
    Bind(read_frameset(bits, p, P, <<>>), LAMBDA frameset_data :
    Bind(recombine(frameset_data.v, frameset_data.pos), LAMBDA samples :
      from_list(samples.v, Len(frameset_data.v), P.bits_per_sample,
                samples.pos)))

\* lines 122..126: the frames returned are deducted; an exception leaves
\* the counter as it was
read_deduct(framelist, P, remaining) ==
    IF framelist.err # ""
    THEN [err |-> framelist.err, v |-> empty_framelist(P),
          pos |-> framelist.pos, total_pcm_frames |-> remaining]
    ELSE [err |-> "", v |-> framelist.v, pos |-> framelist.pos,
          total_pcm_frames |-> remaining - framelist.v.frames]

\* lines 102..126: one frameset is read, recombined and deducted.  The
\* outcome is err or the FrameList in v, with the cursor and the counter
\* after the call.
read_decode(bits, p, P, remaining) ==
    read_deduct(read_framelist(bits, p, P), P, remaining)

\* read_deduct deducting the samples of the block, not its PCM frames
read_deduct_samples(framelist, P, remaining) ==
    IF framelist.err # ""
    THEN [err |-> framelist.err, v |-> empty_framelist(P),
          pos |-> framelist.pos, total_pcm_frames |-> remaining]
    ELSE [err |-> "", v |-> framelist.v, pos |-> framelist.pos,
          total_pcm_frames |-> remaining - Len(framelist.v.samples)]

\* read_deduct with the sign of the deduction of line 123 turned
read_deduct_adding(framelist, P, remaining) ==
    IF framelist.err # ""
    THEN [err |-> framelist.err, v |-> empty_framelist(P),
          pos |-> framelist.pos, total_pcm_frames |-> remaining]
    ELSE [err |-> "", v |-> framelist.v, pos |-> framelist.pos,
          total_pcm_frames |-> remaining + framelist.v.frames]

\* read_deduct taking the end of the bit source for the end of the stream
read_deduct_swallowing(framelist, P, remaining) ==
    IF framelist.err = "IOError"
    THEN [err |-> "", v |-> empty_framelist(P),
          pos |-> framelist.pos, total_pcm_frames |-> remaining]
    ELSE read_deduct(framelist, P, remaining)

\* read() without the test of line 99
read_unguarded(bits, p, P, remaining) == read_decode(bits, p, P, remaining)

\* read() deducting the samples of the block instead of its PCM frames
read_per_sample(bits, p, P, remaining) ==
    IF remaining = 0 THEN read_exhausted(p, P, remaining)
    ELSE read_deduct_samples(read_framelist(bits, p, P), P, remaining)

\* read() adding the frames of the block to the counter
read_adding(bits, p, P, remaining) ==
    IF remaining = 0 THEN read_exhausted(p, P, remaining)
    ELSE read_deduct_adding(read_framelist(bits, p, P), P, remaining)

\* read() returning an empty block when the bit source has run out
read_swallowing(bits, p, P, remaining) ==
    IF remaining = 0 THEN read_exhausted(p, P, remaining)
    ELSE read_deduct_swallowing(read_framelist(bits, p, P), P, remaining)

\* read_deduct deducting a frame for a frameset that failed to decode
read_deduct_failed(framelist, P, remaining) ==
    IF framelist.err # ""
    THEN [err |-> framelist.err, v |-> empty_framelist(P),
          pos |-> framelist.pos, total_pcm_frames |-> remaining - 1]
    ELSE read_deduct(framelist, P, remaining)

\* read() charging the counter for a frameset that failed to decode
read_charging_failures(bits, p, P, remaining) ==
    IF remaining = 0 THEN read_exhausted(p, P, remaining)
    ELSE read_deduct_failed(read_framelist(bits, p, P), P, remaining)

\* the whole of read(bytes)
read(bits, p, P, remaining) ==
    IF remaining = 0 THEN read_exhausted(p, P, remaining)
    ELSE read_decode(bits, p, P, remaining)

-----------------------------------------------------------------------------
(* The payloads the decoder is run on.  A payload is written field by      *)
(* field, as an encoder lays the fields out, from small sets of values.    *)

RECURSIVE NatBits(_, _)
\* v as n bits, most significant first
NatBits(v, n) == IF n = 0 THEN <<>> ELSE NatBits(v \div 2, n - 1) \o <<v % 2>>

SignedBits(v, n) == NatBits(IF v < 0 THEN v + Pow2(n) ELSE v, n)

RECURSIVE SignedListBits(_, _)
SignedListBits(values, n) ==
    IF values = <<>> THEN <<>>
    ELSE SignedBits(Head(values), n) \o SignedListBits(Tail(values), n)

\* the channel-count field and the frame header of lines 132..139
FrameHeaderBits(channel_count, has_sample_count, uncompressed_lsb_size, uncompressed, sample_count) ==
    NatBits(channel_count - 1, 3) \o NatBits(0, 16) \o
    <<has_sample_count>> \o NatBits(uncompressed_lsb_size, 2) \o
    <<uncompressed>> \o
    (IF has_sample_count = 1 THEN NatBits(sample_count, 32) ELSE <<>>)

SubframeHeaderBits(qlp_shift_needed, qlp_coefficients) ==
    NatBits(0, 4) \o NatBits(qlp_shift_needed, 4) \o NatBits(4, 3) \o
    NatBits(Len(qlp_coefficients), 5) \o SignedListBits(qlp_coefficients, 16)

\* a sub-frame header whose prediction_type field is not 0
ReservedSubframeHeaderBits(prediction_type, qlp_shift_needed, qlp_coefficients) ==
    NatBits(prediction_type, 4) \o NatBits(qlp_shift_needed, 4) \o
    NatBits(4, 3) \o NatBits(Len(qlp_coefficients), 5) \o
    SignedListBits(qlp_coefficients, 16)

\* the end-of-frameset field and the padding to the next byte
EndFrameset(bits) ==
    LET b == bits \o <<1, 1, 1>>
    IN  b \o [j \in 1..((8 - (Len(b) % 8)) % 8) |-> 0]

\* the parameters of a 16-bit stream as the reference encoder writes them
StreamParams(channels) ==
    [samples_per_frame |-> 3, bits_per_sample |-> 16,
     history_multiplier |-> 40, initial_history |-> 10, maximum_k |-> 14,
     channels |-> channels]

\* three residuals, 1 1 -1, coded from initial_history 10: every code is
\* followed by an empty block of zeroes but the last
RiceBits == <<1, 1, 0, 0,  0, 0, 0,  1, 0, 0,  0, 0, 0,  0, 0>>

\* one residual 0, then a block of five zero residuals
RiceZeroRun == <<0, 0,  0, 0, 1, 1, 0>>

Frameset(bits, frames, channels, sound) ==
    [bits |-> EndFrameset(bits), frames |-> frames, channels |-> channels,
     sound |-> sound]

\* framesets an encoder writes: every frame holds at least one sample and
\* at most samples_per_frame, all channels as many
SoundFramesets ==
    { Frameset(FrameHeaderBits(1, 0, 0, 1, 0) \o
                 SignedListBits(<<5, -3, 2>>, 16), 3, 1, TRUE),
      Frameset(FrameHeaderBits(1, 1, 0, 1, 1) \o
                 SignedListBits(<<7>>, 16), 1, 1, TRUE),
      Frameset(FrameHeaderBits(1, 0, 0, 0, 0) \o NatBits(0, 8) \o
                 NatBits(0, 8) \o SubframeHeaderBits(1, <<2>>) \o RiceBits,
               3, 1, TRUE),
      Frameset(FrameHeaderBits(1, 0, 1, 0, 0) \o NatBits(0, 8) \o
                 NatBits(0, 8) \o SubframeHeaderBits(1, <<>>) \o
                 NatBits(9, 8) \o NatBits(0, 8) \o NatBits(255, 8) \o
                 RiceBits, 3, 1, TRUE),
      Frameset(FrameHeaderBits(2, 1, 0, 1, 1) \o
                 SignedListBits(<<4, -4>>, 16), 1, 2, TRUE),
      Frameset(FrameHeaderBits(2, 0, 0, 0, 0) \o NatBits(1, 8) \o
                 NatBits(1, 8) \o SubframeHeaderBits(1, <<>>) \o
                 SubframeHeaderBits(1, <<>>) \o RiceBits \o RiceBits,
               3, 2, TRUE),
      Frameset(FrameHeaderBits(1, 1, 0, 1, 1) \o
                 SignedListBits(<<7>>, 16) \o
               FrameHeaderBits(1, 1, 0, 1, 1) \o
                 SignedListBits(<<-7>>, 16), 1, 2, TRUE) }

\* framesets no encoder writes, which a bit source can still hold
OddFramesets ==
    { \* an explicit sample count of 0
      Frameset(FrameHeaderBits(1, 1, 0, 1, 0), 0, 1, FALSE),
      \* an explicit sample count above samples_per_frame
      Frameset(FrameHeaderBits(1, 1, 0, 1, 4) \o
                 SignedListBits(<<1, 2, 3, 4>>, 16), 4, 1, FALSE),
      \* no frame at all
      Frameset(<<>>, 0, 0, FALSE),
      \* two frames of different sample counts
      Frameset(FrameHeaderBits(1, 1, 0, 1, 1) \o
                 SignedListBits(<<7>>, 16) \o
               FrameHeaderBits(1, 1, 0, 1, 2) \o
                 SignedListBits(<<7, 8>>, 16), 0, 2, FALSE),
      \* a QLP shift of 0
      Frameset(FrameHeaderBits(1, 0, 0, 0, 0) \o NatBits(0, 8) \o
                 NatBits(0, 8) \o SubframeHeaderBits(0, <<>>) \o RiceBits,
               0, 1, FALSE),
      \* a block of zero residuals longer than the frame
      Frameset(FrameHeaderBits(1, 0, 0, 0, 0) \o NatBits(0, 8) \o
                 NatBits(0, 8) \o SubframeHeaderBits(1, <<>>) \o RiceZeroRun,
               6, 1, FALSE),
      \* a prediction_type of 1
      Frameset(FrameHeaderBits(1, 0, 0, 0, 0) \o NatBits(0, 8) \o
                 NatBits(0, 8) \o ReservedSubframeHeaderBits(1, 1, <<>>) \o
                 RiceBits, 3, 1, FALSE) }

Framesets == SoundFramesets \cup OddFramesets

RECURSIVE Payloads(_)
\* the payloads of 1..n framesets: the bits, the frames an intact decode
\* returns, the channels of the first frameset, and whether an encoder
\* could have written it for that channel count
Payloads(n) ==
    IF n = 1
    THEN { [bits |-> f.bits, frames |-> f.frames, channels |-> f.channels,
            sound |-> f.sound] : f \in Framesets }
    ELSE Payloads(n - 1) \cup
         { [bits |-> q.bits \o f.bits, frames |-> q.frames + f.frames,
            channels |-> q.channels,
            sound |-> q.sound /\ f.sound /\ f.channels = q.channels] :
           q \in Payloads(n - 1), f \in Framesets }

\* a payload cut after any whole number of its bytes but the last
Cuts(bits) == { SubSeq(bits, 1, 8 * n) : n \in 0..((Len(bits) \div 8) - 1) }

-----------------------------------------------------------------------------
(* The decoder session: read() called again and again on one payload *)

Idle == [phase |-> "idle"]

NoResult == [status |-> "none", err |-> "", samples |-> <<>>,
             channels |-> 0, frames |-> 0]

Init ==
    /\ \E q \in Payloads(MaxFramesets) :
         \/ /\ stream = q.bits
            /\ truncated = FALSE
            /\ total_pcm_frames \in 0..MaxTotal
            /\ params \in {StreamParams(1), StreamParams(2)}
         \/ /\ q.sound
            /\ stream \in Cuts(q.bits)
            /\ truncated = TRUE
            /\ total_pcm_frames = q.frames
            /\ params = StreamParams(q.channels)
    /\ pos = 0
    /\ fr = Idle
    /\ declared = total_pcm_frames
    /\ delivered = 0
    /\ result = NoResult
    /\ rr = Idle
    /\ sf = Idle
    /\ dc = Idle
    /\ ctor = Idle
    /\ ad = Idle

\* the state after a read(bytes) call with outcome r
ReadOutcome(r) ==
    /\ pos' = r.pos
    /\ total_pcm_frames' = r.total_pcm_frames
    /\ result' = [status |-> IF r.err = "" THEN "returned" ELSE "raised",
                  err |-> r.err, samples |-> r.v.samples,
                  channels |-> r.v.channels, frames |-> r.v.frames]
    /\ delivered' = delivered +
                       (IF r.err = ""
                        THEN Len(r.v.samples) \div r.v.channels ELSE 0)

\* one call of read(bytes) by the consumer of the decoder
Read ==
    /\ ReadOutcome(read(stream, pos, params, total_pcm_frames))
    /\ UNCHANGED <<params, stream, declared, truncated, rr, sf, dc, ctor, ad, fr>>

Next == Read

Spec == Init /\ [][Next]_vars

-----------------------------------------------------------------------------
(* Claims about the session *)

\* C1: once total_pcm_frames is 0, every later read() call returns an empty
\* block, leaves the counter at 0 and reads nothing, whatever bits remain
\* in the source.
C1_ExhaustedReadsEmpty ==
    [][total_pcm_frames = 0 =>
         /\ result'.status = "returned"
         /\ result'.samples = <<>>
         /\ result'.frames = 0
         /\ total_pcm_frames' = 0
         /\ pos' = pos]_vars

\* the counter came down to 0 by reading, bits remain, and the read() call
\* after that returned an empty block
C1_Witness ==
    /\ total_pcm_frames = 0
    /\ delivered > 0
    /\ pos < Len(stream)
    /\ result.status = "returned"
    /\ result.frames = 0

\* C8: every successful read() call lowers total_pcm_frames by the PCM
\* frames of the block it returns: the declared total is the counter plus
\* the frames of all blocks returned, and a stream read until the counter
\* is 0 has delivered exactly the declared total.
C8_FramesAccounted ==
    /\ declared = total_pcm_frames + delivered
    /\ (total_pcm_frames = 0 => delivered = declared)

\* a total that is no multiple of samples_per_frame, delivered to the end
C8_Witness ==
    /\ total_pcm_frames = 0
    /\ declared > params.samples_per_frame
    /\ declared % params.samples_per_frame # 0
    /\ delivered = declared
    /\ result.status = "returned"
    /\ result.channels = 2

\* C9: no read() call, successful or failing, raises total_pcm_frames.
C9_CounterNeverIncreases == [][total_pcm_frames' <= total_pcm_frames]_vars

\* a call failed after another had returned a block
C9_Witness ==
    /\ result.status = "raised"
    /\ delivered > 0
    /\ total_pcm_frames < declared

\* C10: on a well-formed payload cut short, with the counter still
\* positive, every read() call either returns a block that is not empty
\* and moves the cursor on, or raises IOError: the payload being finite,
\* calling read() again and again ends in IOError and never in an empty
\* block.
C10_TruncationRaises ==
    /\ [](truncated => ~(result.status = "returned" /\ result.frames = 0))
    /\ [][truncated =>
            \/ result'.status = "raised" /\ result'.err = "IOError"
            \/ /\ result'.status = "returned"
               /\ result'.frames > 0
               /\ pos' > pos]_vars

\* a payload cut inside its second frameset: one block, then IOError
C10_Witness ==
    /\ truncated
    /\ delivered > 0
    /\ total_pcm_frames > 0
    /\ result.status = "raised"
    /\ result.err = "IOError"

\* C11: a read() call that fails inside its frameset, by a short read or
\* by any other exception, returns no block and leaves total_pcm_frames
\* and the frames delivered as they were before the call.
C11_FailedReadKeepsCounter ==
    [][result'.status = "raised" =>
         /\ total_pcm_frames' = total_pcm_frames
         /\ delivered' = delivered
         /\ result'.samples = <<>>
         /\ result'.frames = 0]_vars

\* a call failed on bits it had read, not for want of bits, after an
\* earlier call had returned a block
C11_Witness ==
    /\ result.status = "raised"
    /\ result.err \notin {"", "IOError"}
    /\ pos > 0
    /\ pos < Len(stream)
    /\ delivered > 0
    /\ total_pcm_frames > 0
    /\ total_pcm_frames = declared - delivered

\* the prediction_type field of the first sub-frame header of the frameset
\* at the cursor p, or -1 when its first frame is not a compressed one
first_prediction_type(bits, p) ==
    Bind(reader_read(bits, p, 3), LAMBDA frame_channels :
      IF frame_channels.v + 1 = 8 THEN Ok(-1, frame_channels.pos)
      ELSE
    Bind(reader_skip(bits, frame_channels.pos, 16), LAMBDA skipped :
    Bind(reader_read(bits, skipped.pos, 1), LAMBDA has_sample_count :
    Bind(reader_read(bits, has_sample_count.pos, 2),
         LAMBDA uncompressed_lsb_size :
    Bind(reader_read(bits, uncompressed_lsb_size.pos, 1),
         LAMBDA uncompressed :
      IF uncompressed.v = 1 THEN Ok(-1, uncompressed.pos)
      ELSE reader_read(bits,
               uncompressed.pos +
                   (IF has_sample_count.v # 0 THEN 32 ELSE 0) + 16, 4))))))

\* C12: a read() call on a frameset with a compressed sub-frame whose
\* prediction_type is not 0 raises and returns no samples.
C12_ReservedTypeFails ==
    [][(total_pcm_frames # 0 /\ first_prediction_type(stream, pos).v > 0)
          => result'.status = "raised"]_vars

\* C13: every block read() returns holds at most samples_per_frame PCM
\* frames.
C13_BlockWithinFrameSize ==
    result.status = "returned" => result.frames <= params.samples_per_frame

\* block holds the C channels of frameset_data, n samples each, interleaved
Interleaves(frameset_data, block, C, n) ==
    /\ block.status = "returned"
    /\ block.channels = C
    /\ block.frames = n
    /\ Len(block.samples) = C * n
    /\ \A f \in 0..(n - 1), c \in 0..(C - 1) :
          block.samples[f * C + c + 1] = frameset_data[c + 1][f + 1]

\* the channel arrays of frameset_data are C >= 1 arrays of one length
EqualChannels(frameset_data) ==
    /\ Len(frameset_data) >= 1
    /\ \A c \in 1..Len(frameset_data) :
          Len(frameset_data[c]) = Len(frameset_data[1])

\* what the claim says of the block of a frameset that decoded to fs
InterleavedIfEqual(fs, block) ==
    (fs.err = "" /\ EqualChannels(fs.v))
        => Interleaves(fs.v, block, Len(fs.v), Len(fs.v[1]))

\* C14: when the sub-frames of a frameset give C channel arrays of equal
\* length n, in decode order, read() returns a block of C * n samples
\* whose sample f * C + c is sample f of channel c.
C14_Interleaved ==
    [][total_pcm_frames # 0 =>
         InterleavedIfEqual(read_frameset(stream, pos, params, <<>>),
                            result')]_vars

\* a two-channel frame of three samples, decorrelated to left 2 3 2 and
\* right 1 1 1, came back interleaved
C14_Witness ==
    /\ result.status = "returned"
    /\ result.channels = 2
    /\ result.frames = 3
    /\ result.samples = <<2, 1, 3, 1, 2, 1>>

\* C24: total_pcm_frames is never negative, whatever the bits read.
C24_CounterNeverNegative == total_pcm_frames >= 0

\* C27: a read() call made while the counter is positive, if it returns,
\* returns a block of at least one PCM frame.
C27_EmptyOnlyWhenExhausted ==
    [][(total_pcm_frames > 0 /\ result'.status = "returned")
          => result'.frames > 0]_vars

\* C28: every block read() returns has as many channels as the stream
\* parameters give.
C28_ConfiguredChannels ==
    result.status = "returned" => result.channels = params.channels

-----------------------------------------------------------------------------
(* One call of read_residuals, a pass of its loop at a time *)

\* nine 1 bits, the escape of read_residual, and a 16-bit value
EscapeBits(v) == [j \in 1..9 |-> 1] \o NatBits(v, 16)

RECURSIVE BitStrings(_)
BitStrings(n) ==
    IF n = 0 THEN {<<>>}
    ELSE {<<b>> \o t : b \in {0, 1}, t \in BitStrings(n - 1)}

\* the inputs of a call: any MaxTailBits bits, alone or after an escape
ResidualInputs ==
    {h \o t : h \in {<<>>, EscapeBits(1700), EscapeBits(65535)},
              t \in BitStrings(MaxTailBits)}

ResidualParams ==
    {[samples_per_frame |-> 3, bits_per_sample |-> 16,
      history_multiplier |-> m, initial_history |-> h, maximum_k |-> k,
      channels |-> 1] : m \in {0, 40, 63}, h \in {0, 10, 255},
                        k \in {0, 3, 14, 255}}

InitResiduals ==
    /\ params \in ResidualParams
    /\ stream \in ResidualInputs
    /\ pos = 0
    /\ fr = Idle
    /\ \E sample_size \in {16, 17}, sample_count \in 1..MaxSampleCount :
         rr = [sample_size |-> sample_size, sample_count |-> sample_count,
               st |-> residuals_start(params, 0, sample_count)]
    /\ total_pcm_frames = 0
    /\ declared = 0
    /\ delivered = 0
    /\ truncated = FALSE
    /\ result = NoResult
    /\ sf = Idle
    /\ dc = Idle
    /\ ctor = Idle
    /\ ad = Idle

ResidualsDecode ==
    /\ rr.st.phase = "decode"
    /\ rr' = [rr EXCEPT !.st = residuals_decode(stream, params, rr.sample_size,
                                                rr.sample_count, @)]
    /\ pos' = rr'.st.pos
    /\ UNCHANGED <<params, stream, total_pcm_frames, result, declared,
                   delivered, truncated, sf, dc, ctor, ad, fr>>

ResidualsZeroes ==
    /\ rr.st.phase = "zeroes"
    /\ rr' = [rr EXCEPT !.st = residuals_zeroes(stream, params, rr.sample_size,
                                                rr.sample_count, @)]
    /\ pos' = rr'.st.pos
    /\ UNCHANGED <<params, stream, total_pcm_frames, result, declared,
                   delivered, truncated, sf, dc, ctor, ad, fr>>

NextResiduals == ResidualsDecode \/ ResidualsZeroes

SpecResiduals == InitResiduals /\ [][NextResiduals]_vars

RECURSIVE LeadingOnes(_, _, _)
\* the 1 bits at the cursor p, counted up to limit
LeadingOnes(bits, p, limit) ==
    IF limit = 0 \/ p + 1 > Len(bits) THEN 0
    ELSE IF bits[p + 1] = 0 THEN 0
    ELSE 1 + LeadingOnes(bits, p + 1, limit - 1)

\* the k-bit suffix s after a unary prefix of msb bits and its stop bit
\* gives msb * (2^k - 1), plus s - 1 when s >= 2, and the cursor goes past
\* the suffix, less the one bit pushed back when s = 1
SuffixAsStated(msb, k, suffix, p, value, after) ==
    /\ value = msb * (Pow2(k) - 1) + (IF suffix >= 2 THEN suffix - 1 ELSE 0)
    /\ after = p + msb + 1 + k - (IF suffix = 1 THEN 1 ELSE 0)

\* a successful read_residual(k, sample_size) at the cursor p returned
\* value and left the cursor at after, as stated for k > 0 and for the
\* escape
CodeAsStated(bits, p, k, sample_size, msb, value, after) ==
    IF msb = 9
    THEN /\ value = BitsValue(bits, p + 9, sample_size)
         /\ after = p + 9 + sample_size
    ELSE k > 0 =>
           SuffixAsStated(msb, k, BitsValue(bits, p + msb + 1, k), p, value,
                          after)

\* the unsigned value of which the signed residual r was made
UnsignedOf(r) == IF r < 0 THEN (0 - 2 * r) - 1 ELSE 2 * r

\* C20: read_residual with k > 0 and a unary prefix msb < 9 returns
\* msb * (2^k - 1) + (suffix - 1) for a k-bit suffix >= 2 and pushes
\* nothing back, returns msb * (2^k - 1) for the suffix 1 and pushes one
\* bit back, returns msb * (2^k - 1) for the suffix 0 and pushes no bit
\* back; a unary run of 9 makes it return the next sample_size bits.
\* Checked on both calls of read_residuals: the one for a residual, whose
\* value is the residual appended less sign_modifier, and the one for a
\* block of zeroes, whose value is the number of zeroes appended.
C20_ResidualCode ==
    /\ [][(rr.st.phase = "decode" /\ rr'.st.err = "") =>
            CodeAsStated(stream, pos,
                Min(log2((rr.st.history \div Pow2(9)) + 3), params.maximum_k),
                rr.sample_size, LeadingOnes(stream, pos, 9),
                UnsignedOf(rr'.st.residuals[Len(rr'.st.residuals)]) -
                    rr.st.sign_modifier,
                pos')]_vars
    /\ [][(rr.st.phase = "zeroes" /\ rr'.st.err = "" /\
           rr.st.history < 128 /\ rr.st.i + 1 < rr.sample_count) =>
            CodeAsStated(stream, pos,
                Min(7 - log2(rr.st.history) + ((rr.st.history + 16) \div 64),
                    params.maximum_k),
                16, LeadingOnes(stream, pos, 9),
                Len(rr'.st.residuals) - Len(rr.st.residuals), pos')]_vars

\* after an escape that raised history, a code of k = 3 with the prefix 1
\* and the suffix 5 was read whole: the value 1 * 7 + 4 = 11, residual -6
C20_Witness ==
    /\ params.maximum_k = 3
    /\ Len(stream) >= 30
    /\ SubSeq(stream, 1, 25) = EscapeBits(1700)
    /\ SubSeq(stream, 26, 30) = <<1, 0, 1, 0, 1>>
    /\ Len(rr.st.residuals) = 2
    /\ rr.st.residuals[2] = -6
    /\ pos = 30

\* C2: the list read_residuals returns has exactly sample_count elements.
C2_ExactCount ==
    (rr.st.phase = "done" /\ rr.st.err = "")
        => Len(rr.st.residuals) = rr.sample_count

\* C3 as stated: history is within [0, 0xFFFF] after every update.
C3_HistoryWithin16Bits == rr.st.history >= 0 /\ rr.st.history <= 65535

\* C3, amended: history is never negative and never above 512 * 0x10000
\* after any update; it is 0xFFFF right after an unsigned value above
\* 0xFFFF and 0 right after a block of zeroes was read.
C3_HistoryBounded ==
    /\ rr.st.history >= 0
    /\ rr.st.history <= 512 * 65536
    /\ (rr.st.phase = "zeroes" /\
        Len(rr.st.residuals) > 0 /\
        (rr.st.residuals[Len(rr.st.residuals)] > 32767 \/
         rr.st.residuals[Len(rr.st.residuals)] < -32768))
           => rr.st.history = 65535

\* the update has run on a 16-bit unsigned value and left history above
\* 0xFFFF
C3_Witness ==
    /\ rr.st.phase = "zeroes"
    /\ rr.st.history > 65535
    /\ rr.st.residuals = <<-32768>>

\* the test of line 243 on the locals before the pass
ZeroRunDue == (rr.st.history < 128) /\ (rr.st.i + 1 < rr.sample_count)

\* the code of a block of zeroes as stated: parameter
\* min(7 - log2(history) + (history + 16) div 64, maximum_k), width 16
StatedZeroRun ==
    read_residual(stream, pos,
        Min(7 - log2(rr.st.history) + ((rr.st.history + 16) \div 64),
            params.maximum_k), 16)

\* the pass read the code z, appended z.v zeroes and cleared history, or
\* it raised what reading z raised
ZeroRunRead(z, before, after) ==
    IF z.err # "" THEN after.err = z.err
    ELSE /\ after.err = ""
         /\ after.pos = z.pos
         /\ after.residuals = before.residuals \o Zeroes(z.v)
         /\ after.history = 0

\* the pass read nothing and left residuals and history alone
ZeroRunSkipped(before, after) ==
    /\ after.err = ""
    /\ after.pos = before.pos
    /\ after.residuals = before.residuals
    /\ after.history = before.history

\* C21: after a residual, a code for a block of zeroes is read if and
\* only if the updated history is below 128 and the residual is not the
\* last one needed; it is read with the parameter
\* min(7 - log2(history) + (history + 16) div 64, maximum_k) and the
\* width 16, as many zero residuals as it says are appended, and history
\* is 0 afterwards.
C21_ZeroRun ==
    [][rr.st.phase = "zeroes" =>
         IF ZeroRunDue THEN ZeroRunRead(StatedZeroRun, rr.st, rr'.st)
         ELSE ZeroRunSkipped(rr.st, rr'.st)]_vars

\* a residual 0 left history at 0, and the code 1 1 0 read with the
\* parameter 0 appended two zeroes
C21_Witness ==
    /\ params.maximum_k = 0
    /\ params.initial_history = 0
    /\ rr.sample_count = 3
    /\ rr.st.err = ""
    /\ rr.st.residuals = <<0, 0, 0>>
    /\ rr.st.history = 0
    /\ pos = 4

\* C29: the number of zeroes a code for a block of zeroes gives is at
\* most 0xFFFF, whatever maximum_k is, so sign_modifier is 1 after every
\* such code and the residual decoded next is not 0.
C29_ZeroRunBounded ==
    /\ [][(rr.st.phase = "zeroes" /\ ZeroRunDue /\ rr'.st.err = "") =>
            /\ StatedZeroRun.v <= 65535
            /\ Len(rr'.st.residuals) - Len(rr.st.residuals) <= 65535
            /\ rr'.st.sign_modifier = 1]_vars
    /\ [][(rr.st.phase = "decode" /\ rr.st.sign_modifier = 1 /\
           rr'.st.err = "") =>
            rr'.st.residuals[Len(rr'.st.residuals)] # 0]_vars

\* a block of one zero was read, and the code 0 after it gave -1
C29_Witness ==
    /\ params.maximum_k = 0
    /\ params.initial_history = 0
    /\ params.history_multiplier = 0
    /\ rr.st.err = ""
    /\ rr.st.residuals = <<0, 0, -1>>
    /\ pos = 4

-----------------------------------------------------------------------------
(* One call of decode_subframe, a pass of its loop at a time *)

RECURSIVE SeqsUpTo(_, _)
\* the sequences over S of length 0..n
SeqsUpTo(S, n) ==
    IF n = 0 THEN {<<>>}
    ELSE LET shorter == SeqsUpTo(S, n - 1)
         IN  shorter \cup {Append(q, x) : q \in shorter, x \in S}

InitSubframe ==
    /\ \E shift \in 0..15, coefficients \in {<<>>, <<2>>, <<1, -1>>},
          residuals \in SeqsUpTo({-3, 0, 2, 5}, MaxResiduals) :
         sf = [qlp_shift_needed |-> shift, qlp_coefficients |-> coefficients,
               residuals |-> residuals,
               st |-> subframe_start(shift, coefficients, residuals)]
    /\ params = StreamParams(1)
    /\ stream = <<>>
    /\ pos = 0
    /\ fr = Idle
    /\ total_pcm_frames = 0
    /\ declared = 0
    /\ delivered = 0
    /\ truncated = FALSE
    /\ result = NoResult
    /\ rr = Idle
    /\ dc = Idle
    /\ ctor = Idle
    /\ ad = Idle

SubframeWarmup ==
    /\ sf.st.phase = "warmup"
    /\ sf' = [sf EXCEPT !.st = subframe_warmup(@)]
    /\ UNCHANGED <<params, stream, pos, total_pcm_frames, result, declared,
                   delivered, truncated, rr, dc, ctor, ad, fr>>

SubframePredict ==
    /\ sf.st.phase = "predict"
    /\ sf' = [sf EXCEPT !.st = subframe_predict(@)]
    /\ UNCHANGED <<params, stream, pos, total_pcm_frames, result, declared,
                   delivered, truncated, rr, dc, ctor, ad, fr>>

NextSubframe == SubframeWarmup \/ SubframePredict

SpecSubframe == InitSubframe /\ [][NextSubframe]_vars

\* C4: with an empty coefficient table, at least one residual and any
\* shift 0..15, decode_subframe succeeds and returns the running sum of
\* the residuals, the table still empty.
C4_OrderZeroIsRunningSum ==
    (sf.st.phase = "done" /\ sf.qlp_coefficients = <<>> /\
     Len(sf.residuals) >= 1)
        => /\ sf.st.err = ""
           /\ sf.st.samples = running_sum(sf.residuals, 0)
           /\ sf.st.qlp_coefficients = <<>>

RECURSIVE StatedLpcSum(_, _, _, _)
\* coefficient j - 1 times the j-th most recent sample less base, summed
\* from j up to the predictor order
StatedLpcSum(samples, coefficients, base, j) ==
    IF j > Len(coefficients) THEN 0
    ELSE coefficients[j] * (samples[Len(samples) - j + 1] - base) +
         StatedLpcSum(samples, coefficients, base, j + 1)

\* ((lpc_sum + 2^(shift-1)) >> shift) + r + base for the next residual r,
\* base being the sample order + 1 positions back
StatedSample(st) ==
    LET base == st.samples[Len(st.samples) - Len(st.qlp_coefficients)]
    IN  ((StatedLpcSum(st.samples, st.qlp_coefficients, base, 1) +
          Pow2(st.qlp_shift_needed - 1)) \div Pow2(st.qlp_shift_needed)) +
        Head(st.residuals) + base

\* C16: with predictor order >= 1, past the warm-up samples, for every
\* residual r and every shift 0..15 the pass of the loop succeeds and
\* appends ((lpc_sum + 2^(shift-1)) >> shift) + r + base, lpc_sum taken
\* with the coefficients as adapted so far, coefficient 0 against the
\* most recent sample.
C16_PredictedSample ==
    [][(sf.st.phase = "predict" /\ Len(sf.st.qlp_coefficients) >= 1) =>
         /\ sf'.st.err = ""
         /\ sf'.st.samples = Append(sf.st.samples, StatedSample(sf.st))]_vars

-----------------------------------------------------------------------------
(* The coefficient adaptation of decode_subframe, lines 296..325, a pass   *)
(* of its while loop at a time                                             *)

\* the windows samples[-order-2:-1] of a table of the given order
Windows(order) == [1..(order + 1) -> (0 - MaxWindow)..MaxWindow]

\* the coefficient tables the loop is started on
Tables == {<<2>>, <<1, -1>>, <<0, 3, -2>>}

InitAdapt ==
    /\ \E table \in Tables, shift \in 1..3,
          residual \in (0 - MaxError)..MaxError :
         \E buf \in Windows(Len(table)) :
           ad = [buf |-> buf, qlp_shift_needed |-> shift, table |-> table,
                 first |-> residual, st |-> adapt_start(table, residual)]
    /\ params = StreamParams(1)
    /\ stream = <<>>
    /\ pos = 0
    /\ fr = Idle
    /\ total_pcm_frames = 0
    /\ declared = 0
    /\ delivered = 0
    /\ truncated = FALSE
    /\ result = NoResult
    /\ rr = Idle
    /\ sf = Idle
    /\ dc = Idle
    /\ ctor = Idle

AdaptPositive ==
    /\ ad.st.phase = "positive"
    /\ ad' = [ad EXCEPT !.st = adapt_positive(ad.buf, ad.qlp_shift_needed, @)]
    /\ UNCHANGED <<params, stream, pos, total_pcm_frames, result, declared,
                   delivered, truncated, rr, sf, dc, ctor, fr>>

AdaptNegative ==
    /\ ad.st.phase = "negative"
    /\ ad' = [ad EXCEPT !.st = adapt_negative(ad.buf, ad.qlp_shift_needed, @)]
    /\ UNCHANGED <<params, stream, pos, total_pcm_frames, result, declared,
                   delivered, truncated, rr, sf, dc, ctor, fr>>

NextAdapt == AdaptPositive \/ AdaptNegative

SpecAdapt == InitAdapt /\ [][NextAdapt]_vars

\* val = window[0] - window[order - idx] of the coefficient idx about to
\* be visited
AdaptVal == ad.buf[1] - ad.buf[Len(ad.table) - ad.st.predictor_num + 1]

AdaptAbs(v) == IF v < 0 THEN 0 - v ELSE v

\* what the whole loop does, as decode_subframe runs it on the window
AdaptWhole ==
    adapt(ad.buf, ad.qlp_shift_needed, ad.table, ad.first)

\* C17: the loop visits the coefficients from the highest index down; the
\* visited coefficient idx goes down by sign(val) after a positive
\* residual and up by sign(val) after a negative one, val being
\* window[0] - window[order - idx]; coefficients not visited keep their
\* values, and a residual of 0 leaves the whole table as it was.
C17_CoefficientSteps ==
    /\ [](ad.first = 0 =>
            (ad.st.phase = "done" /\ ad.st.qlp_coefficients = ad.table))
    /\ [](\A j \in 1..(ad.st.predictor_num + 1) :
            ad.st.qlp_coefficients[j] = ad.table[j])
    /\ [](ad.st.phase = "done" =>
            /\ ad.st.qlp_coefficients = AdaptWhole.qlp_coefficients
            /\ Len(ad.table) - 1 - ad.st.predictor_num = AdaptWhole.visited)
    /\ [][ad.st.phase # "done" =>
            /\ ad'.st.predictor_num = ad.st.predictor_num - 1
            /\ ad'.st.qlp_coefficients =
                  [ad.st.qlp_coefficients EXCEPT
                     ![ad.st.predictor_num + 1] =
                        IF ad.first > 0 THEN @ - sign_only(AdaptVal)
                        ELSE @ + sign_only(AdaptVal)]]_vars

\* a negative residual has raised the coefficient 1 and lowered the
\* coefficient 0 of a table of two, the window rising and then falling
C17_Witness ==
    /\ ad.st.phase = "done"
    /\ ad.first < 0
    /\ ad.table = <<1, -1>>
    /\ ad.st.qlp_coefficients = <<0, 0>>

\* C18 as stated: in both branches the visit of coefficient idx takes
\* (|val| >> shift) * (order - idx) off the magnitude of the residual left.
C18_MagnitudeAsStated ==
    [][ad.st.phase # "done" =>
         LET amount == (AdaptAbs(AdaptVal) \div Pow2(ad.qlp_shift_needed)) *
                       (Len(ad.table) - ad.st.predictor_num)
         IN  ad'.st.residual = IF ad.first > 0 THEN ad.st.residual - amount
                               ELSE ad.st.residual + amount]_vars

\* C18, amended: after a positive residual the visit of coefficient idx
\* takes (|val| >> shift) * (order - idx) off the residual left; after a
\* negative residual it adds -((-|val|) >> shift) * (order - idx), the
\* quotient rounded up; the loop ends as soon as the residual left has
\* reached or crossed 0 or every coefficient is visited.
C18_Magnitude ==
    /\ [](ad.st.phase = "done" => ad.st.residual = AdaptWhole.residual)
    /\ [][ad.st.phase # "done" =>
            LET weight == Len(ad.table) - ad.st.predictor_num
                down == AdaptAbs(AdaptVal) \div Pow2(ad.qlp_shift_needed)
                up == 0 - ((0 - AdaptAbs(AdaptVal))
                              \div Pow2(ad.qlp_shift_needed))
            IN  /\ ad'.st.residual =
                      IF ad.first > 0 THEN ad.st.residual - down * weight
                      ELSE ad.st.residual + up * weight
                /\ (ad'.st.phase = "done") <=>
                      \/ ad'.st.predictor_num < 0
                      \/ (ad.first > 0 /\ ad'.st.residual <= 0)
                      \/ (ad.first < 0 /\ ad'.st.residual >= 0)]_vars

\* a negative residual and a val that the shift does not divide: the
\* residual left came up by the quotient rounded up
C18_Witness ==
    /\ ad.first = -1
    /\ ad.qlp_shift_needed = 1
    /\ ad.st.predictor_num = Len(ad.table) - 2
    /\ AdaptAbs(ad.buf[1] - ad.buf[2]) = 1
    /\ ad.st.residual = 0

\* there are a table, a shift, a window and a residual r > 0 for which
\* the loop visits another number of coefficients on r than on -r, and
\* leaves another table on -r than the mirror image of the positive branch
MirrorBroken ==
    \E table \in Tables, shift \in 1..3, r \in 1..MaxError :
       \E buf \in Windows(Len(table)) :
          /\ adapt(buf, shift, table, r).visited #
                adapt(buf, shift, table, 0 - r).visited
          /\ adapt(buf, shift, table, 0 - r).qlp_coefficients #
                adapt_symmetric(buf, shift, table, 0 - r).qlp_coefficients

\* C19: the two branches are no mirror images: whenever an adaptation has
\* run to its end, there is an input of the loop, with a residual r > 0,
\* on which the loop visits another number of coefficients for r than
\* for -r, so that one symmetric rule for both loops changes the tables
\* and with them the samples decoded.
C19_NotMirrorImages == (ad.st.phase = "done") => MirrorBroken

\* the loop has run on a negative residual and visited fewer coefficients
\* than it does on the same window with the residual positive
C19_Witness ==
    /\ ad.st.phase = "done"
    /\ ad.first < 0
    /\ Len(ad.table) - 1 - ad.st.predictor_num <
          adapt(ad.buf, ad.qlp_shift_needed, ad.table, 0 - ad.first).visited

-----------------------------------------------------------------------------
(* One call of decorrelate_channels *)

Samples == (0 - MaxSample)..MaxSample

\* 1..3 channels of two samples each
ChannelData ==
    LET channel == {<<a, b>> : a \in Samples, b \in Samples}
    IN  {<<c>> : c \in channel} \cup
        {<<c, d>> : c \in channel, d \in channel} \cup
        {<<c, d, e>> : c \in channel, d \in channel, e \in channel}

InitDecorrelate ==
    /\ \E channel_data \in ChannelData, shift \in 0..2, leftweight \in 0..2 :
         dc = [channel_data |-> channel_data, interlacing_shift |-> shift,
               interlacing_leftweight |-> leftweight, returned |-> FALSE,
               channels |-> <<>>]
    /\ params = StreamParams(1)
    /\ stream = <<>>
    /\ pos = 0
    /\ fr = Idle
    /\ total_pcm_frames = 0
    /\ declared = 0
    /\ delivered = 0
    /\ truncated = FALSE
    /\ result = NoResult
    /\ rr = Idle
    /\ sf = Idle
    /\ ctor = Idle
    /\ ad = Idle

Decorrelate ==
    /\ ~dc.returned
    /\ dc' = [dc EXCEPT !.returned = TRUE,
                        !.channels = decorrelate_channels(dc.channel_data,
                                         dc.interlacing_shift,
                                         dc.interlacing_leftweight)]
    /\ UNCHANGED <<params, stream, pos, total_pcm_frames, result, declared,
                   delivered, truncated, rr, sf, ctor, ad, fr>>

NextDecorrelate == Decorrelate

SpecDecorrelate == InitDecorrelate /\ [][NextDecorrelate]_vars

Decorrelated ==
    dc.returned /\ Len(dc.channel_data) = 2 /\ dc.interlacing_leftweight # 0

\* C5 as stated: left - right is the input ch1, and
\* right + ((ch2 * leftweight) >> shift) is the input ch2.
C5_InvertsAsStated ==
    Decorrelated =>
        \A j \in 1..Len(dc.channel_data[1]) :
            LET ch1 == dc.channel_data[1][j]
                ch2 == dc.channel_data[2][j]
                left == dc.channels[1][j]
                right == dc.channels[2][j]
            IN  /\ left - right = ch1
                /\ right + ((ch2 * dc.interlacing_leftweight)
                               \div Pow2(dc.interlacing_shift)) = ch2

\* C5, amended: left - right is the input ch2, and
\* right + ((ch2 * leftweight) >> shift) is the input ch1.
C5_Inverts ==
    Decorrelated =>
        /\ Len(dc.channels) = 2
        /\ Len(dc.channels[1]) = Len(dc.channel_data[1])
        /\ Len(dc.channels[2]) = Len(dc.channel_data[1])
        /\ \A j \in 1..Len(dc.channel_data[1]) :
            LET ch1 == dc.channel_data[1][j]
                ch2 == dc.channel_data[2][j]
                left == dc.channels[1][j]
                right == dc.channels[2][j]
            IN  /\ left - right = ch2
                /\ right + (((left - right) * dc.interlacing_leftweight)
                               \div Pow2(dc.interlacing_shift)) = ch1

\* two channels decorrelated with a negative product shifted right
C5_Witness ==
    /\ Decorrelated
    /\ dc.interlacing_shift = 1
    /\ dc.channel_data[2][1] * dc.interlacing_leftweight = -1
    /\ dc.channels # dc.channel_data

\* C6: the channels come back unchanged when there are not two of them,
\* and when there are two and interlacing_leftweight is 0, for any shift.
C6_PassThrough ==
    (dc.returned /\
     (Len(dc.channel_data) # 2 \/ dc.interlacing_leftweight = 0))
        => dc.channels = dc.channel_data

\* two channels, interlacing_shift 1, interlacing_leftweight 0
C6_Witness ==
    /\ dc.returned
    /\ Len(dc.channel_data) = 2
    /\ dc.interlacing_shift = 1
    /\ dc.interlacing_leftweight = 0
    /\ dc.channel_data[1] # dc.channel_data[2]
    /\ dc.channels = dc.channel_data

-----------------------------------------------------------------------------
(* ALACDecoder.__init__.  The file is the atoms the constructor looks for: *)
(* whether the stsd, mdhd and mdat atoms are found, and the fields parsed  *)
(* from those that are; an atom that is found holds all of its fields.     *)

\* __init__ raising only when both codec tags are wrong
ALACDecoder_init_lenient(file) ==
    IF ~file.stsd THEN [err |-> "ValueError", params |-> Idle, total |-> 0]
    ELSE IF (file.alac1 # "alac") /\ (file.alac2 # "alac")
    THEN [err |-> "ValueError", params |-> Idle, total |-> 0]
    ELSE IF ~file.mdhd THEN [err |-> "KeyError", params |-> Idle, total |-> 0]
    ELSE IF file.version \notin {0, 1}
    THEN [err |-> "ValueError", params |-> Idle, total |-> 0]
    ELSE IF ~file.mdat THEN [err |-> "IOError", params |-> Idle, total |-> 0]
    ELSE [err |-> "", params |-> file.params, total |-> file.total]

\* lines 26..79: the stsd atom (KeyError becomes ValueError), the two codec
\* tags, the mdhd atom and its version, then the search for the mdat atom,
\* which ends in IOError at the end of the file
ALACDecoder_init(file) ==
    IF ~file.stsd THEN [err |-> "ValueError", params |-> Idle, total |-> 0]
    ELSE IF (file.alac1 # "alac") \/ (file.alac2 # "alac")
    THEN [err |-> "ValueError", params |-> Idle, total |-> 0]
    ELSE IF ~file.mdhd THEN [err |-> "KeyError", params |-> Idle, total |-> 0]
    ELSE IF file.version \notin {0, 1}
    THEN [err |-> "ValueError", params |-> Idle, total |-> 0]
    ELSE IF ~file.mdat THEN [err |-> "IOError", params |-> Idle, total |-> 0]
    ELSE [err |-> "", params |-> file.params, total |-> file.total]

\* 4-byte tags a configuration box can carry
Tags == {"alac", "mp4a", "ALAC"}

Files ==
    [stsd : BOOLEAN, alac1 : Tags, alac2 : Tags, mdhd : BOOLEAN,
     version : 0..2, total : 0..MaxTotal, mdat : BOOLEAN,
     params : {StreamParams(1), StreamParams(2)}]

InitCtor ==
    /\ \E file \in Files : ctor = [file |-> file, status |-> "calling",
                                    err |-> ""]
    /\ params = Idle
    /\ total_pcm_frames = 0
    /\ stream = <<>>
    /\ pos = 0
    /\ fr = Idle
    /\ declared = 0
    /\ delivered = 0
    /\ truncated = FALSE
    /\ result = NoResult
    /\ rr = Idle
    /\ sf = Idle
    /\ dc = Idle
    /\ ad = Idle

\* the state after ALACDecoder(filename) with outcome r: an exception
\* leaves no decoder behind
Constructed(r) ==
    /\ ctor' = [ctor EXCEPT
                  !.status = IF r.err = "" THEN "constructed" ELSE "raised",
                  !.err = r.err]
    /\ params' = r.params
    /\ total_pcm_frames' = r.total
    /\ declared' = r.total

Construct ==
    /\ ctor.status = "calling"
    /\ Constructed(ALACDecoder_init(ctor.file))
    /\ UNCHANGED <<stream, pos, result, delivered, truncated, rr, sf, dc, ad, fr>>

NextCtor == Construct

SpecInit == InitCtor /\ [][NextCtor]_vars

\* C15: the constructor raises whenever the high or the low codec tag is
\* not 'alac' (ValueError, when the stsd atom was found), and a decoder is
\* constructed only when both tags are 'alac'.
C15_TagsChecked ==
    ctor.status # "calling" =>
        /\ (ctor.file.alac1 # "alac" \/ ctor.file.alac2 # "alac")
               => (ctor.status = "raised" /\ params = Idle)
        /\ (ctor.file.stsd /\
            (ctor.file.alac1 # "alac" \/ ctor.file.alac2 # "alac"))
               => ctor.err = "ValueError"
        /\ ctor.status = "constructed"
               => (ctor.file.alac1 = "alac" /\ ctor.file.alac2 = "alac")

\* a file that is whole and right but for its low codec tag was refused
C15_Witness ==
    /\ ctor.status = "raised"
    /\ ctor.err = "ValueError"
    /\ ctor.file.stsd /\ ctor.file.mdhd /\ ctor.file.mdat
    /\ ctor.file.version = 0
    /\ ctor.file.alac1 = "alac"
    /\ ctor.file.alac2 = "mp4a"

-----------------------------------------------------------------------------
(* ALACDecoder.read_frame, a stage at a time.  The locals of a call are a  *)
(* record; phase is "header" before line 132, "uncompressed" before line   *)
(* 144, "subframes" before line 150, "residuals" before each call of       *)
(* read_residuals in the comprehension of line 167, "decode" before line   *)
(* 176, "merge" before line 191 and "done" at the return or when an        *)
(* exception left the call.  block_pos holds the cursor each read_residuals*)
(* call was entered at, sample_size the width the last one was handed.     *)

frame_start(p) ==
    [err |-> "", pos |-> p, phase |-> "header", uncompressed_lsb_size |-> 0,
     uncompressed |-> 0, sample_count |-> 0, interlacing_shift |-> 0,
     interlacing_leftweight |-> 0, subframe_headers |-> <<>>,
     uncompressed_lsbs |-> <<>>, sample_size |-> 0, block_pos |-> <<>>,
     residual_blocks |-> <<>>, decorrelated_channels |-> <<>>,
     channels |-> <<>>]

\* an exception r leaves the call
frame_raise(st, r) == [st EXCEPT !.err = r.err, !.pos = r.pos, !.phase = "done"]

\* lines 132..139: the frame header
frame_header(bits, P, st) ==
    LET r == Bind(reader_skip(bits, st.pos, 16), LAMBDA skipped :
             Bind(reader_read(bits, skipped.pos, 1), LAMBDA has_sample_count :
             Bind(reader_read(bits, has_sample_count.pos, 2),
                  LAMBDA uncompressed_lsb_size :
             Bind(reader_read(bits, uncompressed_lsb_size.pos, 1),
                  LAMBDA uncompressed :
             Bind(IF has_sample_count.v # 0
                  THEN reader_read(bits, uncompressed.pos, 32)
                  ELSE Ok(P.samples_per_frame, uncompressed.pos),
                  LAMBDA sample_count :
               Ok(<<uncompressed_lsb_size.v, uncompressed.v, sample_count.v>>,
                  sample_count.pos))))))
    IN  IF r.err # "" THEN frame_raise(st, r)
        ELSE [st EXCEPT !.pos = r.pos, !.uncompressed_lsb_size = r.v[1],
                        !.uncompressed = r.v[2], !.sample_count = r.v[3],
                        !.phase = IF r.v[2] = 1 THEN "uncompressed"
                                  ELSE "subframes"]

\* lines 144..146: the raw, interlaced samples
frame_uncompressed(bits, P, channel_count, st) ==
    LET r == read_uncompressed(bits, st.pos, P, channel_count, st.sample_count)
    IN  IF r.err # "" THEN frame_raise(st, r)
        ELSE [st EXCEPT !.pos = r.pos, !.channels = r.v, !.phase = "done"]

\* lines 150..164: interlacing parameters, sub-frame headers and LSBs
frame_subframes(bits, channel_count, st) ==
    LET r == Bind(reader_read(bits, st.pos, 8), LAMBDA interlacing_shift :
             Bind(reader_read(bits, interlacing_shift.pos, 8),
                  LAMBDA interlacing_leftweight :
             Bind(read_subframe_headers(bits, interlacing_leftweight.pos,
                                        channel_count),
                  LAMBDA subframe_headers :
             Bind(IF st.uncompressed_lsb_size > 0
                  THEN read_list(bits, subframe_headers.pos,
                                 st.sample_count * channel_count,
                                 st.uncompressed_lsb_size * 8, FALSE)
                  ELSE Ok(<<>>, subframe_headers.pos),
                  LAMBDA uncompressed_lsbs :
               Ok(<<interlacing_shift.v, interlacing_leftweight.v,
                    subframe_headers.v, uncompressed_lsbs.v>>,
                  uncompressed_lsbs.pos)))))
    IN  IF r.err # "" THEN frame_raise(st, r)
        ELSE [st EXCEPT !.pos = r.pos, !.interlacing_shift = r.v[1],
                        !.interlacing_leftweight = r.v[2],
                        !.subframe_headers = r.v[3],
                        !.uncompressed_lsbs = r.v[4], !.phase = "residuals"]

\* the first argument of line 167, less the sample's own channel
residual_sample_size_mono(P, uncompressed_lsb_size, channel_count) ==
    P.bits_per_sample - (uncompressed_lsb_size * 8)

\* lines 168..170: the first argument of read_residuals
residual_sample_size(P, uncompressed_lsb_size, channel_count) ==
    P.bits_per_sample - (uncompressed_lsb_size * 8) + channel_count - 1

\* lines 167..172: one element of the comprehension
frame_residuals(bits, P, channel_count, st) ==
    LET sample_size == residual_sample_size(P, st.uncompressed_lsb_size,
                                            channel_count)
        r == read_residuals(bits, st.pos, P, sample_size, st.sample_count)
        entered == [st EXCEPT !.sample_size = sample_size,
                              !.block_pos = Append(@, st.pos)]
    IN  IF r.err # "" THEN frame_raise(entered, r)
        ELSE [entered EXCEPT
                !.pos = r.pos, !.residual_blocks = Append(@, r.v),
                !.phase = IF Len(st.residual_blocks) + 1 < channel_count
                          THEN "residuals" ELSE "decode"]

\* lines 176..187: prediction, then decorrelation
frame_decode(st) ==
    LET r == decode_subframes(st.subframe_headers, st.residual_blocks, 1,
                              st.pos)
    IN  IF r.err # "" THEN frame_raise(st, r)
        ELSE [st EXCEPT !.decorrelated_channels =
                            decorrelate_channels(r.v, st.interlacing_shift,
                                                 st.interlacing_leftweight),
                        !.phase = "merge"]

\* lines 191..201: the LSBs are merged and the channels returned
frame_merge(channel_count, st) ==
    LET r == merge_lsbs(st.decorrelated_channels, st.uncompressed_lsbs,
                        st.uncompressed_lsb_size, channel_count, st.pos)
    IN  IF r.err # "" THEN frame_raise(st, r)
        ELSE [st EXCEPT !.channels = r.v, !.phase = "done"]

\* the frames read_frame is called on: a frame is written field by field
\* from small sets of values, the channel-count field before it

\* the explicit sample counts written go up to MaxFrameCount
MaxFrameCount == 2

\* has_sample_count and the sample count the decoder will use
FrameCounts ==
    {[has |-> 0, n |-> StreamParams(1).samples_per_frame]} \cup
    {[has |-> 1, n |-> n] : n \in 0..MaxFrameCount}

\* the widths, in bytes, of the uncompressed LSBs
LsbSizes == 0..2

\* the j-th raw sample and the j-th LSB value written
SampleValue(j) == ((5 * j) % 7) - 3

LsbValue(j, uncompressed_lsb_size) ==
    (85 * j + 9) % Pow2(8 * uncompressed_lsb_size)

\* interlacing_shift and interlacing_leftweight
Interlacings == {<<0, 0>>, <<1, 1>>, <<2, 3>>}

\* qlp_shift_needed and the coefficients of every channel's header
SubframeHeaders == {<<1, <<>>>>, <<1, <<2>>>>, <<0, <<>>>>}

\* the bits one channel's residuals are written as: silence; 1 1 -1; a
\* block of zeroes longer than the frame; a negative residual; an escape
\* code whose value is 10 in 17 bits and 5 in 16
ResidualCodes ==
    { <<>>, RiceBits, RiceZeroRun, <<1, 0, 0>>,
      [j \in 1..9 |-> 1] \o NatBits(10, 17) }

FramePad == [j \in 1..24 |-> 0]

UncompressedFrame(channel_count, uncompressed_lsb_size, count, cut) ==
    LET body == SignedListBits([j \in 1..(count.n * channel_count) |->
                                   SampleValue(j)], 16)
    IN  [channel_count |-> channel_count,
         bits |-> FrameHeaderBits(channel_count, count.has,
                                  uncompressed_lsb_size, 1, count.n) \o
                  SubSeq(body, 1, Len(body) - cut)]

CompressedFrame(channel_count, uncompressed_lsb_size, count, interlacing, header, codes) ==
    [channel_count |-> channel_count,
     bits |-> FrameHeaderBits(channel_count, count.has,
                              uncompressed_lsb_size, 0, count.n) \o
              NatBits(interlacing[1], 8) \o NatBits(interlacing[2], 8) \o
              SubframeHeaderBits(header[1], header[2]) \o
              (IF channel_count = 2
               THEN SubframeHeaderBits(header[1], header[2]) ELSE <<>>) \o
              (IF uncompressed_lsb_size > 0
               THEN SignedListBits([j \in 1..(count.n * channel_count) |->
                                      LsbValue(j, uncompressed_lsb_size)],
                                   8 * uncompressed_lsb_size)
               ELSE <<>>) \o
              codes[1] \o (IF channel_count = 2 THEN codes[2] ELSE <<>>) \o
              FramePad]

Frames ==
    { UncompressedFrame(c, w, count, cut) :
          c \in 1..2, w \in LsbSizes, count \in FrameCounts, cut \in {0, 5} }
    \cup
    { CompressedFrame(1, w, count, i, h, <<code>>) :
          w \in LsbSizes, count \in FrameCounts, i \in Interlacings,
          h \in SubframeHeaders, code \in ResidualCodes }
    \cup
    { CompressedFrame(2, w, count, i, h, codes) :
          w \in LsbSizes, count \in FrameCounts, i \in Interlacings,
          h \in SubframeHeaders, codes \in ResidualCodes \X ResidualCodes }

\* read(3) of line 104 or 107 has taken the channel-count field
InitFrame ==
    /\ \E f \in Frames :
         /\ stream = f.bits
         /\ fr = [channel_count |-> f.channel_count, st |-> frame_start(3)]
         /\ params = StreamParams(f.channel_count)
    /\ pos = 3
    /\ total_pcm_frames = 0
    /\ declared = 0
    /\ delivered = 0
    /\ truncated = FALSE
    /\ result = NoResult
    /\ rr = Idle
    /\ sf = Idle
    /\ dc = Idle
    /\ ctor = Idle
    /\ ad = Idle

FrameStep(st) ==
    /\ fr' = [fr EXCEPT !.st = st]
    /\ pos' = st.pos
    /\ UNCHANGED <<params, stream, total_pcm_frames, result, declared,
                   delivered, truncated, rr, sf, dc, ctor, ad>>

FrameHeader ==
    /\ fr.st.phase = "header"
    /\ FrameStep(frame_header(stream, params, fr.st))

FrameUncompressed ==
    /\ fr.st.phase = "uncompressed"
    /\ FrameStep(frame_uncompressed(stream, params, fr.channel_count, fr.st))

FrameSubframes ==
    /\ fr.st.phase = "subframes"
    /\ FrameStep(frame_subframes(stream, fr.channel_count, fr.st))

FrameResiduals ==
    /\ fr.st.phase = "residuals"
    /\ FrameStep(frame_residuals(stream, params, fr.channel_count, fr.st))

FrameDecode ==
    /\ fr.st.phase = "decode"
    /\ FrameStep(frame_decode(fr.st))

FrameMerge ==
    /\ fr.st.phase = "merge"
    /\ FrameStep(frame_merge(fr.channel_count, fr.st))

NextFrame ==
    \/ FrameHeader
    \/ FrameUncompressed
    \/ FrameSubframes
    \/ FrameResiduals
    \/ FrameDecode
    \/ FrameMerge

SpecFrame == InitFrame /\ [][NextFrame]_vars

\* the stages together are the call: what they leave is what read_frame
\* returns or raises
FrameAgrees ==
    fr.st.phase = "done" =>
        LET r == read_frame(stream, 3, params, fr.channel_count)
        IN  /\ r.err = fr.st.err
            /\ r.err = "" => (r.v = fr.st.channels /\ r.pos = fr.st.pos)

\* the frame was compressed, carried LSBs and was returned
MergedFrame ==
    /\ fr.st.phase = "done"
    /\ fr.st.err = ""
    /\ fr.st.uncompressed = 0
    /\ fr.st.uncompressed_lsb_size > 0

\* sample f of channel c (both from 0) is (d << 8w) | l: l lies in the low
\* 8w bits, under d
MergedAsStated(c, f) ==
    LET w == fr.st.uncompressed_lsb_size
        d == fr.st.decorrelated_channels[c + 1][f + 1]
        l == fr.st.uncompressed_lsbs[f * fr.channel_count + c + 1]
        out == fr.st.channels[c + 1][f + 1]
    IN  /\ l \in 0..(Pow2(8 * w) - 1)
        /\ out = d * Pow2(8 * w) + l
        /\ out \div Pow2(8 * w) = d
        /\ out % Pow2(8 * w) = l

\* C22: in a compressed frame with LSB width w > 0 and C channels, sample f
\* of output channel c is (d << 8w) | l, d being sample f of decorrelated
\* channel c and l element f*C + c of the flat LSB read: the output shifted
\* right by 8w is d, also for negative d, and its low 8w bits are l.  The
\* channels merged are the decorrelated ones.
C22_LsbMerge ==
    /\ FrameAgrees
    /\ MergedFrame =>
         /\ Len(fr.st.channels) = fr.channel_count
         /\ \A c \in 0..(fr.channel_count - 1) :
              /\ Len(fr.st.channels[c + 1]) =
                     Len(fr.st.decorrelated_channels[c + 1])
              /\ \A f \in 0..(Len(fr.st.channels[c + 1]) - 1) :
                   MergedAsStated(c, f)
         /\ fr.st.decorrelated_channels =
                decorrelate_channels(
                    decode_subframes(fr.st.subframe_headers,
                                     fr.st.residual_blocks, 1, fr.st.pos).v,
                    fr.st.interlacing_shift, fr.st.interlacing_leftweight)

\* a stereo frame with one LSB byte was decorrelated and merged, a sample
\* of it negative
C22_Witness ==
    /\ MergedFrame
    /\ fr.channel_count = 2
    /\ fr.st.interlacing_leftweight # 0
    /\ fr.st.sample_count = 3
    /\ fr.st.uncompressed_lsb_size = 1
    /\ fr.st.decorrelated_channels[1] # fr.st.decorrelated_channels[2]
    /\ \E f \in 1..3 : fr.st.decorrelated_channels[2][f] < 0
    /\ \E f \in 1..3 : fr.st.channels[2][f] < 0

\* the width the claim states for a compressed frame
StatedSampleSize ==
    params.bits_per_sample - 8 * fr.st.uncompressed_lsb_size +
        fr.channel_count - 1

\* the locals a channel's residual decoding is said to start from, the
\* cursor being at p
StatedFreshStart(p) ==
    [err |-> "", pos |-> p, history |-> params.initial_history,
     sign_modifier |-> 0, i |-> 0, residuals |-> <<>>,
     phase |-> IF 0 < fr.st.sample_count THEN "decode" ELSE "done"]

\* what decoding from the stated start with the stated width leaves
StatedBlock(p) ==
    residuals_loop(stream, params, StatedSampleSize, fr.st.sample_count,
                   StatedFreshStart(p))

\* C23: in a compressed frame every channel's residuals are decoded with
\* the escape width bits_per_sample - 8*lsb_width + channel_count - 1, and
\* each channel's decoding starts from history = initial_history and
\* sign_modifier = 0 at the cursor the previous channel left, whatever
\* history and sign_modifier that channel ended with.
C23_ChannelResiduals ==
    \A c \in 1..Len(fr.st.block_pos) :
        /\ fr.st.sample_size = StatedSampleSize
        /\ c <= Len(fr.st.residual_blocks) =>
             /\ StatedBlock(fr.st.block_pos[c]).err = ""
             /\ fr.st.residual_blocks[c] =
                    StatedBlock(fr.st.block_pos[c]).residuals
             /\ StatedBlock(fr.st.block_pos[c]).pos =
                    (IF c < Len(fr.st.block_pos) THEN fr.st.block_pos[c + 1]
                     ELSE fr.st.pos)
        /\ c > Len(fr.st.residual_blocks) =>
             /\ fr.st.err # ""
             /\ StatedBlock(fr.st.block_pos[c]).err = fr.st.err

\* the second channel of a stereo frame was decoded with the width 17,
\* after a first channel that ended with a history other than the initial
\* one and an escape code read
C23_Witness ==
    /\ fr.channel_count = 2
    /\ Len(fr.st.residual_blocks) = 2
    /\ fr.st.sample_size = 17
    /\ fr.st.sample_count = 3
    /\ StatedBlock(fr.st.block_pos[1]).history # params.initial_history
    /\ fr.st.residual_blocks[1] = <<5, 0, 0>>
    /\ Len(fr.st.residual_blocks[2]) = 3
    /\ fr.st.residual_blocks[2] # <<0, 0, 0>>

\* C25: the assertion of line 194, that each decorrelated channel has as
\* many samples as its slice of the uncompressed LSBs, holds for every
\* compressed frame with LSB width > 0 and every bit input: read_frame
\* never leaves with an AssertionError.
C25_AssertionHolds == fr.st.err # "AssertionError"

\* C26: whenever read_frame returns, every channel list it returns has
\* exactly sample_count samples, on the compressed and the uncompressed
\* path alike.
C26_ChannelLengths ==
    (fr.st.phase = "done" /\ fr.st.err = "") =>
        \A c \in 1..Len(fr.st.channels) :
            Len(fr.st.channels[c]) = fr.st.sample_count

\* C30: the escape width handed to read_residuals, bits_per_sample -
\* 8*lsb_width + channel_count - 1, is at least 1 for every LSB width and
\* channel count a frame header can carry, so that no escape code asks for
\* zero or fewer bits.
C30_EscapeWidthPositive ==
    Len(fr.st.block_pos) > 0 => fr.st.sample_size >= 1

=============================================================================
